---- MODULE Spec2Model ----
(***************************************************************************)
(* Model of tide-static-file: the read scheduler (file_read.rs), the body  *)
(* streamers (single_range.rs, multi_range.rs), the range resolver and the *)
(* conditional evaluator (utils.rs, lib.rs) and the request handler        *)
(* StaticFiles::run (lib.rs).                                              *)
(*                                                                         *)
(* File contents are modelled by position: the byte at offset i of a file  *)
(* is identified with i, so a run of bytes is a segment [off, len].        *)
(***************************************************************************)
EXTENDS Integers, Sequences, FiniteSets, TLC

\* ------------------------------------------------------------------ bounds
\* number of submissions (FileReadTask::create calls) in one run
MaxTasks == 2
\* capacity of the submission channel; bounded(1024) in file_read.rs:119
QueueCap == 1
\* number of worker threads; 8 in file_read.rs:120
NumWorkers == 1
\* polls the consumers make in one run, over all operations
MaxPolls == 2
\* sizes of the buffers handed to create, 1..MaxBuf, and the size of the file
\* the scheduler's clients read
MaxBuf == 1

VARIABLES
    \* --- read scheduler (file_read.rs)
    state,      \* task id -> TaskState, the Arc<Mutex<TaskState>> contents
    poisoned,   \* task id -> the task's mutex is poisoned (a holder panicked)
    guard,      \* task id -> the thread that holds the task's MutexGuard, or "none"
    handle,     \* task id -> create returned Ok: the consumer owns a FileReadTask
    queue,      \* the bounded channel SENDER/receiver: sequence of task ids
    nextTask,   \* id the next create call uses
    wpc,        \* worker -> "idle" | "read" | "finish" | "dead"
    wtask,      \* worker -> task it took from the channel
    wlocal,     \* worker -> its locals (file, buffer, waker, read_result)
    \* --- observations of the scheduler
    createArg,  \* arguments of the last create call
    createRet,  \* what the last create call returned
    pollLog,    \* task id -> sequence of [res, waker, value] of its polls
    pickedAt,   \* task id -> number of polls made before the worker's pickup, -1 before
    wakeLog,    \* task id -> sequence of [waker, tag] : wakers woken, state tag at wake
    wokenAt,    \* task id -> number of polls made before its handle was last woken, -1 before
    readsBy,    \* threads that executed a blocking file read
    fsize,      \* size in bytes of the file being served / read
    \* --- request handler (lib.rs)
    req,        \* the request's headers, each an Option<String>
    target,     \* "none": no path resolved; "meta_err": metadata() failed; "ok"
    lastModified, \* the file's mtime, milliseconds since the epoch
    overflowChecks, \* the build panics on arithmetic overflow (else it wraps)
    rpc,        \* "start" | "done" | "panic": where StaticFiles::run is
    resp,       \* the response run returned
    sr,         \* the SingleRangeReader of the response body
    mr,         \* the MultiRangeReader of the response body
    out,        \* what the pulls of the response body returned, in order
    \* --- pure functions (lib.rs, utils.rs)
    call        \* a call of one of them: the function, its arguments, its result

schedVars == <<state, poisoned, guard, handle, queue, nextTask, wpc, wtask, wlocal,
               createArg, createRet, pollLog, pickedAt, wakeLog, wokenAt>>

runVars == <<req, target, lastModified, overflowChecks, rpc, resp, sr, mr, out, call>>

vars == <<state, poisoned, guard, handle, queue, nextTask, wpc, wtask, wlocal,
          createArg, createRet, pollLog, pickedAt, wakeLog, wokenAt, readsBy, fsize,
          req, target, lastModified, overflowChecks, rpc, resp, sr, mr, out, call>>

Tasks == 1..MaxTasks
Workers == 1..NumWorkers

Min(a, b) == IF a < b THEN a ELSE b
Max(a, b) == IF a > b THEN a ELSE b

\* ------------------------------------------------------------ TaskState
NoFile == [id |-> 0, pos |-> 0]
NoBytes == [off |-> 0, len |-> 0]
NoResult == [kind |-> "None", file |-> NoFile, buffer |-> -1, bytes |-> NoBytes]

\* enum TaskState: the variant is tag; the fields a variant lacks are blank
TaskState(tag, file, buffer, waker, result) ==
    [tag |-> tag, file |-> file, buffer |-> buffer, waker |-> waker, result |-> result]

Temp == TaskState("Temp", NoFile, -1, 0, NoResult)
Absent == TaskState("Absent", NoFile, -1, 0, NoResult)
StInit(file, buffer) == TaskState("Init", file, buffer, 0, NoResult)
StReady(file, buffer, waker) == TaskState("Ready", file, buffer, waker, NoResult)
WaitWaker == TaskState("WaitWaker", NoFile, -1, 0, NoResult)
SendWaker(waker) == TaskState("SendWaker", NoFile, -1, waker, NoResult)
Working == TaskState("Working", NoFile, -1, 0, NoResult)
Done(result) == TaskState("Done", NoFile, -1, 0, result)

\* Result<(File, Bytes), (File, BytesMut, IoError)>
ResOk(file, bytes) == [kind |-> "Ok", file |-> file, buffer |-> -1, bytes |-> bytes]
ResErr(file, buffer) == [kind |-> "Err", file |-> file, buffer |-> buffer, bytes |-> NoBytes]

\* ------------------------------------------------- request and response
NoRequest == [range |-> <<>>, if_range |-> <<>>, if_none_match |-> <<>>,
              if_modified_since |-> <<>>, if_match |-> <<>>,
              if_unmodified_since |-> <<>>]

\* SingleRangeReader { range, task }
NoSingle == [live |-> FALSE, start |-> 0, end |-> 0, task |-> 0]
\* MultiRangeReader { file, file_size, mime, ranges, state }
NoMulti == [live |-> FALSE, file |-> NoFile, file_size |-> 0, mime |-> "",
            ranges |-> <<>>, state |-> "None"]

\* http::Response: status, the headers set (absent: "" or -1), the body kind
Response(status, etag, accept_ranges, last_modified, content_type, content_range, content_length, body) ==
    [status |-> status, etag |-> etag, accept_ranges |-> accept_ranges,
     last_modified |-> last_modified, content_type |-> content_type,
     content_range |-> content_range, content_length |-> content_length,
     body |-> body]
NoResponse == Response(0, "", "", "", "", "", -1, "none")

\* no call of a pure function
NoCall == [fn |-> "none", done |-> FALSE, etag |-> "", byte_range |-> <<>>,
           ranges |-> <<>>, text |-> "", root |-> <<>>, ret |-> FALSE]

\* ------------------------------------------------- TaskState::get_state
\* mem::replace(self, Temp): the cell is Temp afterwards; a Temp found there panics
GetStatePanics(st) == st.tag = "Temp"

\* ------------------------------------------------- FileReadTask::create
\* a send that ignores the channel's capacity
CreateStepUnbounded(q, t, file, buffer) ==
    [ok |-> TRUE, queue |-> Append(q, t), st |-> StInit(file, buffer),
     file |-> NoFile, buffer |-> -1]

\* try_send on the bounded channel; on Full the Init state is taken back out of
\* the fresh task and (file, buffer) returned.  t is the id of the fresh task.
CreateStep(q, t, file, buffer) ==
    IF Len(q) < QueueCap
    THEN [ok |-> TRUE, queue |-> Append(q, t), st |-> StInit(file, buffer),
          file |-> NoFile, buffer |-> -1]
    ELSE [ok |-> FALSE, queue |-> q, st |-> Temp,
          file |-> file, buffer |-> buffer]

\* a poll whose WaitWaker arm returns Pending without putting SendWaker back
PollStepNoPutBack(st, pois, waker) ==
    IF pois
    THEN [st |-> st, pois |-> TRUE, res |-> "Panic", value |-> NoResult]
    ELSE IF GetStatePanics(st)
    THEN [st |-> Temp, pois |-> TRUE, res |-> "Panic", value |-> NoResult]
    ELSE CASE st.tag = "Init" ->
                [st |-> StReady(st.file, st.buffer, waker), pois |-> FALSE,
                 res |-> "Pending", value |-> NoResult]
           [] st.tag = "Done" ->
                [st |-> Temp, pois |-> FALSE, res |-> "Ready", value |-> st.result]
           [] OTHER ->
                [st |-> Temp, pois |-> FALSE, res |-> "Pending", value |-> NoResult]

\* --------------------------------------------------- FileReadTask::poll
\* st: the state found under the lock; pois: the mutex is poisoned.
\* Gives the state left behind, the poll's return value and the poison flag.
PollStep(st, pois, waker) ==
    IF pois
    THEN [st |-> st, pois |-> TRUE, res |-> "Panic", value |-> NoResult]
    ELSE IF GetStatePanics(st)
    THEN [st |-> Temp, pois |-> TRUE, res |-> "Panic", value |-> NoResult]
    ELSE CASE st.tag = "Init" ->
                [st |-> StReady(st.file, st.buffer, waker), pois |-> FALSE,
                 res |-> "Pending", value |-> NoResult]
           [] st.tag = "WaitWaker" ->
                [st |-> SendWaker(waker), pois |-> FALSE,
                 res |-> "Pending", value |-> NoResult]
           [] st.tag = "Done" ->
                [st |-> Temp, pois |-> FALSE, res |-> "Ready", value |-> st.result]
           [] OTHER ->  \* Temp | Working | SendWaker | Ready: nothing is put back
                [st |-> Temp, pois |-> FALSE, res |-> "Pending", value |-> NoResult]

\* ------------------------------------------------------ worker: pickup
\* a pickup without the drop(guard) of line 180: the guard lives on through
\* the read
PickupStepKeepGuard(st, pois) ==
    IF pois
    THEN [st |-> st, pois |-> TRUE, panic |-> TRUE, held |-> FALSE,
          file |-> NoFile, buffer |-> -1, waker |-> 0]
    ELSE CASE st.tag = "Init" ->
                [st |-> WaitWaker, pois |-> FALSE, panic |-> FALSE, held |-> TRUE,
                 file |-> st.file, buffer |-> st.buffer, waker |-> 0]
           [] st.tag = "Ready" ->
                [st |-> Working, pois |-> FALSE, panic |-> FALSE, held |-> TRUE,
                 file |-> st.file, buffer |-> st.buffer, waker |-> st.waker]
           [] OTHER ->
                [st |-> Temp, pois |-> TRUE, panic |-> TRUE, held |-> FALSE,
                 file |-> NoFile, buffer |-> -1, waker |-> 0]

\* lines 164-180: lock, take the state, leave WaitWaker or Working, drop the
\* guard.  held: the worker still holds the guard after the step
PickupStep(st, pois) ==
    IF pois
    THEN [st |-> st, pois |-> TRUE, panic |-> TRUE, held |-> FALSE,
          file |-> NoFile, buffer |-> -1, waker |-> 0]
    ELSE CASE st.tag = "Init" ->
                [st |-> WaitWaker, pois |-> FALSE, panic |-> FALSE, held |-> FALSE,
                 file |-> st.file, buffer |-> st.buffer, waker |-> 0]
           [] st.tag = "Ready" ->
                [st |-> Working, pois |-> FALSE, panic |-> FALSE, held |-> FALSE,
                 file |-> st.file, buffer |-> st.buffer, waker |-> st.waker]
           [] OTHER ->  \* unreachable!(), with the guard held: unwinding drops it
                [st |-> Temp, pois |-> TRUE, panic |-> TRUE, held |-> FALSE,
                 file |-> NoFile, buffer |-> -1, waker |-> 0]

\* -------------------------------------------------------- worker: read
\* file.read(&mut buffer): the sizes a read at file.pos into buffer may return:
\* all n bytes that are there, or fewer (a short read, of half of them)
ReadSizes(file, buffer, size) ==
    LET n == Min(buffer, Max(0, size - file.pos))
    IN  IF n = 0 THEN {0} ELSE {n, (n + 1) \div 2}

\* lines 182-188: Ok(size) truncates and freezes the buffer, Err keeps it
ReadOk(file, buffer, n) ==
    ResOk([id |-> file.id, pos |-> file.pos + n], [off |-> file.pos, len |-> n])
ReadErr(file, buffer) == ResErr(file, buffer)

\* ------------------------------------------------------ worker: finish
\* a finish that forgets the handle registered while the read ran
FinishStepNoWakeRegistered(st, pois, result, waker) ==
    IF pois
    THEN [st |-> st, pois |-> TRUE, panic |-> TRUE, woke |-> 0]
    ELSE CASE st.tag \in {"WaitWaker", "SendWaker"} ->
                [st |-> Done(result), pois |-> FALSE, panic |-> FALSE, woke |-> 0]
           [] st.tag = "Working" ->
                [st |-> Done(result), pois |-> (waker = 0), panic |-> (waker = 0),
                 woke |-> waker]
           [] OTHER ->
                [st |-> Temp, pois |-> TRUE, panic |-> TRUE, woke |-> 0]

\* a finish that wakes the consumer only when the read succeeded
FinishStepWakeOnSuccess(st, pois, result, waker) ==
    IF pois
    THEN [st |-> st, pois |-> TRUE, panic |-> TRUE, woke |-> 0]
    ELSE CASE st.tag = "WaitWaker" ->
                [st |-> Done(result), pois |-> FALSE, panic |-> FALSE, woke |-> 0]
           [] st.tag = "SendWaker" ->
                [st |-> Done(result), pois |-> FALSE, panic |-> FALSE,
                 woke |-> IF result.kind = "Ok" THEN st.waker ELSE 0]
           [] st.tag = "Working" ->
                [st |-> Done(result), pois |-> (waker = 0), panic |-> (waker = 0),
                 woke |-> IF result.kind = "Ok" THEN waker ELSE 0]
           [] OTHER ->
                [st |-> Temp, pois |-> TRUE, panic |-> TRUE, woke |-> 0]

\* a finish that wakes the handle and leaves the result out of the cell
FinishStepWakeNoStore(st, pois, result, waker) ==
    IF pois
    THEN [st |-> st, pois |-> TRUE, panic |-> TRUE, woke |-> 0]
    ELSE CASE st.tag = "WaitWaker" ->
                [st |-> Done(result), pois |-> FALSE, panic |-> FALSE, woke |-> 0]
           [] st.tag = "SendWaker" ->
                [st |-> Temp, pois |-> FALSE, panic |-> FALSE, woke |-> st.waker]
           [] st.tag = "Working" ->
                [st |-> Temp, pois |-> (waker = 0), panic |-> (waker = 0),
                 woke |-> waker]
           [] OTHER ->
                [st |-> Temp, pois |-> TRUE, panic |-> TRUE, woke |-> 0]

\* lines 190-206: lock, take the state, store Done, wake.  woke = 0: no wake.
FinishStep(st, pois, result, waker) ==
    IF pois
    THEN [st |-> st, pois |-> TRUE, panic |-> TRUE, woke |-> 0]
    ELSE CASE st.tag = "WaitWaker" ->
                [st |-> Done(result), pois |-> FALSE, panic |-> FALSE, woke |-> 0]
           [] st.tag = "SendWaker" ->
                [st |-> Done(result), pois |-> FALSE, panic |-> FALSE,
                 woke |-> st.waker]
           [] st.tag = "Working" ->  \* waker.unwrap() after put_state
                [st |-> Done(result), pois |-> (waker = 0), panic |-> (waker = 0),
                 woke |-> waker]
           [] OTHER ->  \* unreachable!(), with the guard held
                [st |-> Temp, pois |-> TRUE, panic |-> TRUE, woke |-> 0]

NoLocal == [file |-> NoFile, buffer |-> -1, waker |-> 0, result |-> NoResult]

\* ---------------------------------------------------------------- Spec
\* The scheduler with a free consumer: any create, any poll, at any time.
Init ==
    /\ state = [t \in Tasks |-> Absent]
    /\ poisoned = [t \in Tasks |-> FALSE]
    /\ guard = [t \in Tasks |-> "none"]
    /\ handle = [t \in Tasks |-> FALSE]
    /\ queue = <<>>
    /\ nextTask = 1
    /\ wpc = [w \in Workers |-> "idle"]
    /\ wtask = [w \in Workers |-> 0]
    /\ wlocal = [w \in Workers |-> NoLocal]
    /\ createArg = [file |-> NoFile, buffer |-> -1]
    /\ createRet = [ok |-> TRUE, file |-> NoFile, buffer |-> -1, qlen |-> 0]
    /\ pollLog = [t \in Tasks |-> <<>>]
    /\ pickedAt = [t \in Tasks |-> -1]
    /\ wakeLog = [t \in Tasks |-> <<>>]
    /\ wokenAt = [t \in Tasks |-> -1]
    /\ readsBy = {}
    /\ fsize = MaxBuf
    /\ req = NoRequest
    /\ target = "ok"
    /\ lastModified = 0
    /\ overflowChecks = TRUE
    /\ rpc = "done"
    /\ resp = NoResponse
    /\ sr = NoSingle
    /\ mr = NoMulti
    /\ out = <<>>
    /\ call = NoCall

\* a caller submits a read of `buffer` bytes on `file`
Create(file, buffer) ==
    /\ nextTask <= MaxTasks
    /\ LET r == CreateStep(queue, nextTask, file, buffer)
       IN  /\ queue' = r.queue
           /\ state' = [state EXCEPT ![nextTask] = r.st]
           /\ handle' = [handle EXCEPT ![nextTask] = r.ok]
           /\ createRet' = [ok |-> r.ok, file |-> r.file, buffer |-> r.buffer,
                            qlen |-> Len(queue)]
    /\ createArg' = [file |-> file, buffer |-> buffer]
    /\ nextTask' = nextTask + 1
    /\ UNCHANGED <<poisoned, guard, wpc, wtask, wlocal, pollLog, pickedAt, wakeLog, wokenAt,
                   readsBy, fsize, runVars>>

PollCount == LET RECURSIVE Sum(_)
                Sum(n) == IF n = 0 THEN 0 ELSE Len(pollLog[n]) + Sum(n - 1)
            IN  Sum(MaxTasks)

\* the consumer polls operation t with wakeup handle waker
Poll(t, waker) ==
    /\ handle[t]
    /\ PollCount < MaxPolls
    /\ \A i \in 1..Len(pollLog[t]) : pollLog[t][i].res # "Panic"
    /\ guard[t] = "none"   \* self.state.lock() waits for the guard
    /\ LET r == PollStep(state[t], poisoned[t], waker)
       IN  /\ state' = [state EXCEPT ![t] = r.st]
           /\ poisoned' = [poisoned EXCEPT ![t] = r.pois]
           /\ pollLog' = [pollLog EXCEPT ![t] =
                  Append(@, [res |-> r.res, waker |-> waker, value |-> r.value])]
    /\ UNCHANGED <<guard, handle, queue, nextTask, wpc, wtask, wlocal, createArg,
                   createRet, pickedAt, wakeLog, wokenAt, readsBy, fsize, runVars>>

\* worker w receives the next task and takes it over
WorkerPickup(w) ==
    /\ wpc[w] = "idle"
    /\ queue # <<>>
    /\ guard[Head(queue)] = "none"
    /\ LET t == Head(queue)
           r == PickupStep(state[t], poisoned[t])
       IN  /\ queue' = Tail(queue)
           /\ state' = [state EXCEPT ![t] = r.st]
           /\ poisoned' = [poisoned EXCEPT ![t] = r.pois]
           /\ guard' = [guard EXCEPT ![t] = IF r.held THEN "worker" ELSE "none"]
           /\ wtask' = [wtask EXCEPT ![w] = t]
           /\ wpc' = [wpc EXCEPT ![w] = IF r.panic THEN "dead" ELSE "read"]
           /\ wlocal' = [wlocal EXCEPT ![w] =
                  [file |-> r.file, buffer |-> r.buffer, waker |-> r.waker,
                   result |-> NoResult]]
           /\ pickedAt' = [pickedAt EXCEPT ![t] = Len(pollLog[t])]
    /\ UNCHANGED <<handle, nextTask, createArg, createRet, pollLog, wakeLog, wokenAt,
                   readsBy, fsize, runVars>>

\* worker w executes the blocking read, holding no lock
WorkerRead(w) ==
    /\ wpc[w] = "read"
    /\ \/ \E n \in ReadSizes(wlocal[w].file, wlocal[w].buffer, fsize) :
            wlocal' = [wlocal EXCEPT ![w].result =
                           ReadOk(wlocal[w].file, wlocal[w].buffer, n)]
       \/ wlocal' = [wlocal EXCEPT ![w].result =
                           ReadErr(wlocal[w].file, wlocal[w].buffer)]
    /\ wpc' = [wpc EXCEPT ![w] = "finish"]
    /\ readsBy' = readsBy \cup {"worker"}
    /\ UNCHANGED <<state, poisoned, guard, handle, queue, nextTask, wtask, createArg,
                   createRet, pollLog, pickedAt, wakeLog, wokenAt, fsize, runVars>>

\* worker w stores the result and wakes the consumer
WorkerFinish(w) ==
    /\ wpc[w] = "finish"
    /\ guard[wtask[w]] = "none"
    /\ LET t == wtask[w]
           r == FinishStep(state[t], poisoned[t], wlocal[w].result, wlocal[w].waker)
       IN  /\ state' = [state EXCEPT ![t] = r.st]
           /\ poisoned' = [poisoned EXCEPT ![t] = r.pois]
           /\ wpc' = [wpc EXCEPT ![w] = IF r.panic THEN "dead" ELSE "idle"]
           /\ wakeLog' = [wakeLog EXCEPT ![t] =
                  IF r.woke = 0 THEN @
                  ELSE Append(@, [waker |-> r.woke, tag |-> r.st.tag])]
           /\ wokenAt' = [wokenAt EXCEPT ![t] =
                  IF r.woke = 0 THEN @ ELSE Len(pollLog[t])]
    /\ wlocal' = [wlocal EXCEPT ![w] = NoLocal]
    /\ UNCHANGED <<guard, handle, queue, nextTask, wtask, createArg, createRet,
                   pollLog, pickedAt, readsBy, fsize, runVars>>

Next ==
    \/ \E b \in 1..MaxBuf : Create([id |-> nextTask, pos |-> 0], b)
    \/ \E t \in Tasks : Poll(t, PollCount + 1)
    \/ \E w \in Workers : WorkerPickup(w)
    \/ \E w \in Workers : WorkerRead(w)
    \/ \E w \in Workers : WorkerFinish(w)

Spec == Init /\ [][Next]_vars

\* ------------------------------------------------------------ SpecFair
\* The scheduler under fair scheduling of the worker threads: a worker that
\* can receive a task, whose read returns, or that can store its result
\* eventually does so.  Nothing is assumed of the consumer.
WorkerFairness ==
    \A w \in Workers :
        /\ WF_vars(WorkerPickup(w))
        /\ WF_vars(WorkerRead(w))
        /\ WF_vars(WorkerFinish(w))

SpecFair == Init /\ [][Next]_vars /\ WorkerFairness

\* ------------------------------------------------------------ SpecDrop
\* The scheduler with a consumer that may also drop its FileReadTask.
\* operation t is in the channel, or a worker holds it and is not through
Queued(t) == \E i \in 1..Len(queue) : queue[i] = t
Running(t) == \E w \in Workers : wtask[w] = t /\ wpc[w] \in {"read", "finish"}

\* the consumer drops the FileReadTask of t (its streamer is dropped): its
\* Arc goes away, the clone sent through the channel keeps the cell alive
Drop(t) ==
    /\ handle[t]
    /\ Queued(t) \/ Running(t)
    /\ handle' = [handle EXCEPT ![t] = FALSE]
    /\ UNCHANGED <<state, poisoned, guard, queue, nextTask, wpc, wtask, wlocal,
                   createArg, createRet, pollLog, pickedAt, wakeLog, wokenAt, readsBy,
                   fsize, runVars>>

NextDrop ==
    \/ Next
    \/ \E t \in Tasks : Drop(t)

SpecDrop == Init /\ [][NextDrop]_vars

\* ---------------------------------------------------------- SpecPolite
\* The scheduler with a consumer that follows the Future contract: it polls
\* an operation once, then again only after the handle of that poll was
\* woken, and never after a poll returned Ready.
Polite(t) ==
    \/ Len(pollLog[t]) = 0
    \/ /\ Len(pollLog[t]) > 0
       /\ pollLog[t][Len(pollLog[t])].res = "Pending"
       /\ wokenAt[t] = Len(pollLog[t])

PollOnce(t, waker) ==
    /\ Polite(t)
    /\ Poll(t, waker)

NextPolite ==
    \/ \E b \in 1..MaxBuf : Create([id |-> nextTask, pos |-> 0], b)
    \/ \E t \in Tasks : PollOnce(t, PollCount + 1)
    \/ \E w \in Workers : WorkerPickup(w)
    \/ \E w \in Workers : WorkerRead(w)
    \/ \E w \in Workers : WorkerFinish(w)

SpecPolite == Init /\ [][NextPolite]_vars

\* ============================================================== strings
\* Header values are strings; an Option<String> is <<>> (None) or <<s>> (Some).
None == <<>>
Some(x) == <<x>>
IsSome(o) == o # <<>>
Unwrap(o) == o[1]

CharAt(s, i) == SubSeq(s, i, i)
IsSpace(c) == c = " " \/ c = "\t"

\* str::trim
RECURSIVE TrimStart(_)
TrimStart(s) ==
    IF Len(s) > 0 /\ IsSpace(CharAt(s, 1)) THEN TrimStart(SubSeq(s, 2, Len(s))) ELSE s
RECURSIVE TrimEnd(_)
TrimEnd(s) ==
    IF Len(s) > 0 /\ IsSpace(CharAt(s, Len(s)))
    THEN TrimEnd(SubSeq(s, 1, Len(s) - 1)) ELSE s
Trim(s) == TrimEnd(TrimStart(s))

\* str::split(sep) for a one-character separator: the pieces, in order
RECURSIVE SplitFrom(_, _, _, _)
SplitFrom(s, sep, from, i) ==
    IF i > Len(s) THEN <<SubSeq(s, from, Len(s))>>
    ELSE IF CharAt(s, i) = sep
         THEN <<SubSeq(s, from, i - 1)>> \o SplitFrom(s, sep, i + 1, i + 1)
         ELSE SplitFrom(s, sep, from, i + 1)
Split(s, sep) == SplitFrom(s, sep, 1, 1)

StartsWith(s, prefix) ==
    Len(s) >= Len(prefix) /\ SubSeq(s, 1, Len(prefix)) = prefix

DecDigits == <<"0", "1", "2", "3", "4", "5", "6", "7", "8", "9">>
HexDigits == DecDigits \o <<"a", "b", "c", "d", "e", "f">>

\* format!("{}", n) and format!("{:x}", n) for an unsigned n
RECURSIVE FmtBase(_, _)
FmtBase(n, digits) ==
    IF n < Len(digits) THEN digits[n + 1]
    ELSE FmtBase(n \div Len(digits), digits) \o digits[(n % Len(digits)) + 1]
FmtU64(n) == FmtBase(n, DecDigits)
FmtHex(n) == FmtBase(n, HexDigits)

IsDigit(c) == \E d \in 1..10 : DecDigits[d] = c
DigitVal(c) == (CHOOSE d \in 1..10 : DecDigits[d] = c) - 1

\* largest value of the unsigned integers of the model: u64::MAX scaled to 29
\* bits, so that sums of such values stay within 32-bit arithmetic
U64Max == 536870911

\* str::parse::<u64>: digits only (an optional leading '+'), no overflow
RECURSIVE ParseDigits(_, _, _)
ParseDigits(s, i, acc) ==
    IF i > Len(s) THEN Some(acc)
    ELSE IF ~IsDigit(CharAt(s, i)) THEN None
    ELSE LET d == DigitVal(CharAt(s, i))
         IN  IF acc > (U64Max - d) \div 10 THEN None
             ELSE ParseDigits(s, i + 1, acc * 10 + d)
ParseU64(s) ==
    LET body == IF Len(s) > 0 /\ CharAt(s, 1) = "+" THEN SubSeq(s, 2, Len(s)) ELSE s
    IN  IF Len(body) = 0 THEN None ELSE ParseDigits(body, 1, 0)

\* ============================================================ HTTP dates
\* httpdate::fmt_http_date / str::parse::<HttpDate> (IMF-fixdate).  The model's
\* timestamps lie in the first day of the epoch; times are in milliseconds.
Pad2(n) == IF n < 10 THEN "0" \o FmtU64(n) ELSE FmtU64(n)
DatePrefix == "Thu, 01 Jan 1970 "
DateSuffix == " GMT"

\* HttpDate::from(SystemTime): whole seconds, the sub-second part is dropped
HttpDateFrom(ms) == ms \div 1000

FmtHttpDate(ms) ==
    LET secs == HttpDateFrom(ms)
    IN  DatePrefix \o Pad2(secs \div 3600) \o ":" \o Pad2((secs \div 60) % 60)
            \o ":" \o Pad2(secs % 60) \o DateSuffix

TwoDigits(s) ==
    IF Len(s) = 2 /\ IsDigit(CharAt(s, 1)) /\ IsDigit(CharAt(s, 2))
    THEN Some(DigitVal(CharAt(s, 1)) * 10 + DigitVal(CharAt(s, 2)))
    ELSE None

\* parse::<HttpDate>(): Some(seconds) or None
ParseHttpDate(s) ==
    IF /\ Len(s) = 29
       /\ SubSeq(s, 1, 17) = DatePrefix
       /\ SubSeq(s, 26, 29) = DateSuffix
       /\ CharAt(s, 20) = ":" /\ CharAt(s, 23) = ":"
    THEN LET h == TwoDigits(SubSeq(s, 18, 19))
             m == TwoDigits(SubSeq(s, 21, 22))
             sec == TwoDigits(SubSeq(s, 24, 25))
         IN  IF /\ IsSome(h) /\ IsSome(m) /\ IsSome(sec)
                /\ Unwrap(h) < 24 /\ Unwrap(m) < 60 /\ Unwrap(sec) < 60
             THEN Some(Unwrap(h) * 3600 + Unwrap(m) * 60 + Unwrap(sec))
             ELSE None
    ELSE None

\* ======================================================== path resolution
\* std::path::PathBuf on Unix: absolute or not, and its components; a "."
\* and an empty component do not count, a ".." is kept (Component::ParentDir)
PathOf(abs, comps) == [abs |-> abs, comps |-> comps]
\* PathBuf::new()
EmptyPath == PathOf(FALSE, <<>>)

\* Path::components of a string
Components(x) == SelectSeq(Split(x, "/"), LAMBDA c : c # "" /\ c # ".")
IsAbsolute(x) == StartsWith(x, "/")

\* PathBuf::push: an absolute argument replaces the path
PathPush(p, x) ==
    IF IsAbsolute(x) THEN PathOf(TRUE, Components(x))
    ELSE PathOf(p.abs, p.comps \o Components(x))

\* PathBuf::pop: truncate to the parent, if there is one
PathPop(p) ==
    IF p.comps = <<>> THEN p ELSE PathOf(p.abs, SubSeq(p.comps, 1, Len(p.comps) - 1))

\* Path::join
PathJoin(root, p) == IF p.abs THEN p ELSE PathOf(root.abs, root.comps \o p.comps)

\* url_path.split(|c| c == '/' || c == '\\'): the pieces, in order
RECURSIVE SplitUrlFrom(_, _, _)
SplitUrlFrom(s, from, i) ==
    IF i > Len(s) THEN <<SubSeq(s, from, Len(s))>>
    ELSE IF CharAt(s, i) = "/" \/ CharAt(s, i) = "\\"
         THEN <<SubSeq(s, from, i - 1)>> \o SplitUrlFrom(s, i + 1, i + 1)
         ELSE SplitUrlFrom(s, from, i + 1)

\* the bytes a %XX escape stands for, for the characters the model's paths are
\* made of; a lone byte from 0x80 on ("ff") is not UTF-8
PercentCodes ==
    <<<<"2e", ".">>, <<"2E", ".">>, <<"2f", "/">>, <<"2F", "/">>, <<"5c", "\\">>,
      <<"5C", "\\">>, <<"25", "%">>, <<"66", "f">>>>
IsHex(c) == \E d \in 1..16 : HexDigits[d] = c \/ c \in {"A", "B", "C", "D", "E", "F"}
NotUtf8(code) == CharAt(code, 1) \in {"8", "9", "a", "b", "c", "d", "e", "f", "A", "B", "C", "D", "E", "F"}
ByteOf(code) == PercentCodes[CHOOSE k \in 1..Len(PercentCodes) : PercentCodes[k][1] = code][2]

\* percent_decode(s).decode_utf8(): [ok, v]; a '%' that is not followed by two
\* hex digits stands for itself
RECURSIVE PercentDecode(_, _)
PercentDecode(s, i) ==
    IF i > Len(s) THEN [ok |-> TRUE, v |-> ""]
    ELSE IF /\ CharAt(s, i) = "%" /\ i + 2 <= Len(s)
            /\ IsHex(CharAt(s, i + 1)) /\ IsHex(CharAt(s, i + 2))
    THEN IF NotUtf8(SubSeq(s, i + 1, i + 2)) THEN [ok |-> FALSE, v |-> ""]
         ELSE LET rest == PercentDecode(s, i + 3)
              IN  [ok |-> rest.ok, v |-> ByteOf(SubSeq(s, i + 1, i + 2)) \o rest.v]
    ELSE LET rest == PercentDecode(s, i + 1)
         IN  [ok |-> rest.ok, v |-> CharAt(s, i) \o rest.v]

\* the loop of resolve_path over the segments of the url path
RECURSIVE ResolveLoop(_, _, _)
ResolveLoop(p, segs, i) ==
    IF i > Len(segs) THEN p
    ELSE LET d == PercentDecode(segs[i], 1)
         IN  IF ~d.ok THEN ResolveLoop(p, segs, i + 1)
             ELSE IF d.v = "." THEN ResolveLoop(p, segs, i + 1)
             ELSE IF d.v = ".." THEN ResolveLoop(PathPop(p), segs, i + 1)
             ELSE ResolveLoop(PathPush(p, d.v), segs, i + 1)

\* utils::resolve_path
resolve_path(root, url_path) ==
    PathJoin(root, ResolveLoop(EmptyPath, SplitUrlFrom(url_path, 1, 1), 1))

\* ================================================= conditional evaluator
\* etags.split(',').map(str::trim).any(|x| x == etag)
AnyTokenIs(value, etag) ==
    LET parts == Split(value, ",")
    IN  \E i \in 1..Len(parts) : Trim(parts[i]) = etag

\* a range check that takes the ETag only as the whole header value
should_range_Verbatim(if_range, etag, last_modify) ==
    IF IsSome(if_range) /\ IsSome(ParseHttpDate(Unwrap(if_range)))
    THEN Unwrap(ParseHttpDate(Unwrap(if_range))) = HttpDateFrom(last_modify)
    ELSE IF IsSome(if_range)
    THEN Unwrap(if_range) = etag
    ELSE FALSE

\* StaticFiles::should_range
should_range(if_range, etag, last_modify) ==
    IF IsSome(if_range) /\ IsSome(ParseHttpDate(Unwrap(if_range)))
    THEN Unwrap(ParseHttpDate(Unwrap(if_range))) = HttpDateFrom(last_modify)
    ELSE IF IsSome(if_range)
    THEN AnyTokenIs(Unwrap(if_range), etag)
    ELSE FALSE

\* a cache check that looks at If-Modified-Since alone
should_cache_DateOnly(if_modified_since, if_none_match, last_modified, etag) ==
    /\ IsSome(if_modified_since)
    /\ ParseHttpDate(Unwrap(if_modified_since)) # <<>>
    /\ Unwrap(ParseHttpDate(Unwrap(if_modified_since))) = HttpDateFrom(last_modified)

\* a cache check in the sense of "not modified since": any date from
\* last_modified on matches
should_cache_NotModifiedSince(if_modified_since, if_none_match, last_modified, etag) ==
    IF IsSome(if_none_match)
    THEN AnyTokenIs(Unwrap(if_none_match), etag)
    ELSE IF IsSome(if_modified_since) /\ IsSome(ParseHttpDate(Unwrap(if_modified_since)))
    THEN Unwrap(ParseHttpDate(Unwrap(if_modified_since))) >= HttpDateFrom(last_modified)
    ELSE FALSE

\* StaticFiles::should_cache
should_cache(if_modified_since, if_none_match, last_modified, etag) ==
    IF IsSome(if_none_match)
    THEN AnyTokenIs(Unwrap(if_none_match), etag)
    ELSE IF IsSome(if_modified_since) /\ IsSome(ParseHttpDate(Unwrap(if_modified_since)))
    THEN Unwrap(ParseHttpDate(Unwrap(if_modified_since))) = HttpDateFrom(last_modified)
    ELSE FALSE

\* a precondition check in the sense of "modified after": only a date before
\* last_modified fails
precondition_failed_ModifiedAfter(if_match, if_unmodified_since, last_modified, etag) ==
    IF IsSome(if_match)
    THEN ~AnyTokenIs(Unwrap(if_match), etag)
    ELSE IF /\ IsSome(if_unmodified_since)
            /\ IsSome(ParseHttpDate(Unwrap(if_unmodified_since)))
    THEN Unwrap(ParseHttpDate(Unwrap(if_unmodified_since))) < HttpDateFrom(last_modified)
    ELSE FALSE

\* StaticFiles::precondition_failed
precondition_failed(if_match, if_unmodified_since, last_modified, etag) ==
    IF IsSome(if_match)
    THEN ~AnyTokenIs(Unwrap(if_match), etag)
    ELSE IF IsSome(if_unmodified_since)
            /\ IsSome(ParseHttpDate(Unwrap(if_unmodified_since)))
    THEN Unwrap(ParseHttpDate(Unwrap(if_unmodified_since))) # HttpDateFrom(last_modified)
    ELSE FALSE

\* metadata(): etag = format!("{:x}-{:x}", mtime seconds, size)
EtagOf(last_modify, size) == FmtHex(last_modify \div 1000) \o "-" \o FmtHex(size)

\* ========================================================= range resolver
\* range_header::ByteRange
FromTo(start) == [kind |-> "FromTo", a |-> start, b |-> 0]
FromToAll(start, end) == [kind |-> "FromToAll", a |-> start, b |-> end]
Last(length) == [kind |-> "Last", a |-> length, b |-> 0]

\* one range-spec of the header: "a-", "a-b" or "-n"; anything else is skipped
ParseRangeSpec(spec) ==
    LET parts == Split(spec, "-")
    IN  IF Len(parts) # 2 THEN <<>>
        ELSE LET l == ParseU64(parts[1])
                 r == ParseU64(parts[2])
             IN  IF parts[1] = "" /\ IsSome(r) THEN <<Last(Unwrap(r))>>
                 ELSE IF IsSome(l) /\ parts[2] = "" THEN <<FromTo(Unwrap(l))>>
                 ELSE IF IsSome(l) /\ IsSome(r) THEN <<FromToAll(Unwrap(l), Unwrap(r))>>
                 ELSE <<>>

RECURSIVE ParseRangeSpecs(_, _)
ParseRangeSpecs(parts, i) ==
    IF i > Len(parts) THEN <<>>
    ELSE ParseRangeSpec(Trim(parts[i])) \o ParseRangeSpecs(parts, i + 1)

\* ByteRange::parse: the syntactically valid specs of a "bytes=" header value,
\* in order; an empty list for any other unit or no valid spec
ParseByteRange(value) ==
    IF StartsWith(value, "bytes=")
    THEN ParseRangeSpecs(Split(SubSeq(value, 7, Len(value)), ","), 1)
    ELSE <<>>

\* Option<Range<u64>> with the arithmetic failure of the computation, if any
NoRange == [some |-> FALSE, start |-> 0, end |-> 0, panic |-> FALSE]
SomeRange(start, end) == [some |-> TRUE, start |-> start, end |-> end, panic |-> FALSE]
RangePanic == [some |-> FALSE, start |-> 0, end |-> 0, panic |-> TRUE]

\* utils::actual_range.  checked: the build checks arithmetic overflow (it
\* panics); otherwise end + 1 wraps around.
actual_range(byte_range, file_size, checked) ==
    CASE byte_range.kind = "FromTo" ->
            IF byte_range.a < file_size
            THEN SomeRange(byte_range.a, file_size)
            ELSE NoRange
      [] byte_range.kind = "FromToAll" ->
            IF byte_range.a <= byte_range.b /\ byte_range.a < file_size
            THEN IF byte_range.b = U64Max
                 THEN IF checked THEN RangePanic
                      ELSE SomeRange(byte_range.a, Min(file_size, 0))
                 ELSE SomeRange(byte_range.a, Min(file_size, byte_range.b + 1))
            ELSE NoRange
      [] byte_range.kind = "Last" ->
            IF byte_range.a > 0
            THEN SomeRange(IF byte_range.a > file_size THEN 0
                           ELSE file_size - byte_range.a, file_size)
            ELSE NoRange

\* utils::MAX_BUFFER_SIZE
MAX_BUFFER_SIZE == 4194304
\* utils::BOUNDARY
BOUNDARY == "DCjanus"
MULTI_RANGE_CONTENT_TYPE == "multipart/byteranges; boundary=DCjanus"

\* utils::buffer_size: min(remain, max_buffer_size); usize is 64 bits wide
buffer_size(remain, max_buffer_size) == Min(remain, max_buffer_size)

\* utils::u64_width: the limits of NUMBERS that the model's integers can hold
NUMBERS == <<10, 100, 1000, 10000, 100000, 1000000, 10000000, 100000000,
             1000000000>>
u64_width(x) ==
    IF \E i \in 1..Len(NUMBERS) : NUMBERS[i] > x
    THEN CHOOSE i \in 1..Len(NUMBERS) :
            /\ NUMBERS[i] > x
            /\ \A j \in 1..(i - 1) : NUMBERS[j] <= x
    ELSE Len(NUMBERS) + 1

\* utils::merge_ranges
\* ranges.sort_by_cached_key(|x| x.start): a stable sort, here by insertion
RECURSIVE InsertByStart(_, _)
InsertByStart(sorted, r) ==
    IF sorted = <<>> THEN <<r>>
    ELSE IF Head(sorted).start <= r.start
    THEN <<Head(sorted)>> \o InsertByStart(Tail(sorted), r)
    ELSE <<r>> \o sorted

RECURSIVE SortByStart(_)
SortByStart(ranges) ==
    IF ranges = <<>> THEN <<>>
    ELSE InsertByStart(SortByStart(SubSeq(ranges, 1, Len(ranges) - 1)),
                       ranges[Len(ranges)])

\* a fold that keeps adjacent ranges apart
RECURSIVE MergeFoldOverlapOnly(_, _)
MergeFoldOverlapOnly(result, rest) ==
    IF rest = <<>> THEN result
    ELSE LET i == Head(rest)
         IN  IF i.start = i.end THEN MergeFoldOverlapOnly(result, Tail(rest))
             ELSE IF result = <<>> THEN MergeFoldOverlapOnly(<<i>>, Tail(rest))
             ELSE IF result[Len(result)].end <= i.start
             THEN MergeFoldOverlapOnly(Append(result, i), Tail(rest))
             ELSE MergeFoldOverlapOnly(
                      [result EXCEPT ![Len(result)].end = Max(@, i.end)], Tail(rest))

\* the loop over the sorted, non-empty ranges: push, or extend the last
RECURSIVE MergeFold(_, _)
MergeFold(result, rest) ==
    IF rest = <<>> THEN result
    ELSE LET i == Head(rest)
         IN  IF i.start = i.end THEN MergeFold(result, Tail(rest))
             ELSE IF result = <<>> THEN MergeFold(<<i>>, Tail(rest))
             ELSE IF result[Len(result)].end < i.start
             THEN MergeFold(Append(result, i), Tail(rest))
             ELSE MergeFold([result EXCEPT ![Len(result)].end = Max(@, i.end)],
                            Tail(rest))

merge_ranges(ranges) == MergeFold(<<>>, SortByStart(ranges))

\* ======================================================= part headers
\* multi_range::HEADER_SIZE_CONSTANT
HEADER_SIZE_CONSTANT == 56

\* a - b on u64: [panic, v]; an underflow panics in a checked build, else wraps
SubU64(a, b, checked) ==
    IF a >= b THEN [panic |-> FALSE, v |-> a - b]
    ELSE IF checked THEN [panic |-> TRUE, v |-> 0]
    ELSE [panic |-> FALSE, v |-> a - b + U64Max + 1]

\* a size that takes the width of the exclusive end of the range
PartHeaderSize_ExclusiveEnd(range, mime_text, total, checked) ==
    [panic |-> SubU64(range.end, 1, checked).panic,
     v |-> HEADER_SIZE_CONSTANT + Len(mime_text) + u64_width(range.start)
               + u64_width(range.end) + u64_width(total)]

\* PartHeader::size: [panic, v]
PartHeaderSize(range, mime_text, total, checked) ==
    LET e == SubU64(range.end, 1, checked)
    IN  [panic |-> e.panic,
         v |-> HEADER_SIZE_CONSTANT + Len(mime_text) + u64_width(range.start)
                   + u64_width(e.v) + u64_width(total)]

\* ===================================================== request handler
\* the file metadata() opened for the request
ReqFile == [id |-> 0, pos |-> 0]
\* mime_guess::guess_mime_type of the served path
MimeText == "text/plain"

\* a - b and sums on u64 that a checked build panics on and another wraps
AddU64(a, b, checked) ==
    IF a + b <= U64Max THEN [panic |-> FALSE, v |-> a + b]
    ELSE IF checked THEN [panic |-> TRUE, v |-> 0]
    ELSE [panic |-> FALSE, v |-> a + b - U64Max - 1]

RECURSIVE SumU64(_, _, _)
SumU64(xs, i, checked) ==
    IF i > Len(xs) THEN [panic |-> FALSE, v |-> 0]
    ELSE LET rest == SumU64(xs, i + 1, checked)
             sum == AddU64(xs[i], rest.v, checked)
         IN  [panic |-> rest.panic \/ sum.panic, v |-> sum.v]

\* no create call was made
NoCreate == [ok |-> FALSE, queue |-> <<>>, st |-> Temp, file |-> NoFile, buffer |-> -1]
NoArg == [file |-> NoFile, buffer |-> -1]

\* SingleRangeReader::new: assert!(start < end), seek, create.
\* kind: "panic" | "seek_err" | "saturated" | "ok"; arg: what create was given
SingleRangeReaderNew(file, start, end, seekOk, q, t) ==
    IF ~(start < end) THEN [kind |-> "panic", create |-> NoCreate, arg |-> NoArg]
    ELSE IF ~seekOk THEN [kind |-> "seek_err", create |-> NoCreate, arg |-> NoArg]
    ELSE LET f == [id |-> file.id, pos |-> start]
             b == buffer_size(end - start, MAX_BUFFER_SIZE)
             c == CreateStep(q, t, f, b)
         IN  [kind |-> IF c.ok THEN "ok" ELSE "saturated", create |-> c,
              arg |-> [file |-> f, buffer |-> b]]

\* ErrorResponse::into_response
NotFoundResponse == Response(404, "", "", "", "text/plain", "", -1, "text")
UnexpectedResponse == Response(500, "", "", "", "text/plain", "", -1, "text")

\* the outcome of run: the response (or a panic), the reader built for its
\* body, and the create call made on the scheduler, if any
Outcome(panic, response, single, multi, created, create, arg) ==
    [panic |-> panic, resp |-> response, sr |-> single, mr |-> multi,
     created |-> created, create |-> create, arg |-> arg]
Plain(response) == Outcome(FALSE, response, NoSingle, NoMulti, FALSE, NoCreate, NoArg)
Panicked == Outcome(TRUE, NoResponse, NoSingle, NoMulti, FALSE, NoCreate, NoArg)

\* the response built around a SingleRangeReader::new result `new`
ReaderResponse(new, start, end, t, response) ==
    CASE new.kind = "panic" -> Panicked
      [] new.kind = "seek_err" -> Plain(UnexpectedResponse)
      [] new.kind = "saturated" ->
            Outcome(FALSE, UnexpectedResponse, NoSingle, NoMulti, TRUE,
                    new.create, new.arg)
      [] OTHER -> Outcome(FALSE, response,
                          [live |-> TRUE, start |-> start, end |-> end, task |-> t],
                          NoMulti, TRUE, new.create, new.arg)

\* StaticFiles::whole_file_response
whole_file_response(etag, last_modified, file_size, seekOk, q, t) ==
    ReaderResponse(SingleRangeReaderNew(ReqFile, 0, file_size, seekOk, q, t),
                   0, file_size, t,
                   Response(200, etag, "bytes", FmtHttpDate(last_modified), MimeText,
                            "", file_size, "single"))

\* lines 156-217 of run: the resolved ranges select 416, single or multipart
RangeResponse(specs, etag, last_modified, file_size, checked, seekOk, q, t) ==
    LET resolved == [i \in 1..Len(specs) |-> actual_range(specs[i], file_size, checked)]
        found == SelectSeq(resolved, LAMBDA r : r.some)
        ranges == [i \in 1..Len(found) |-> [start |-> found[i].start, end |-> found[i].end]]
    IN  IF \E i \in 1..Len(resolved) : resolved[i].panic THEN Panicked
        ELSE IF Len(ranges) = 0
        THEN Plain(Response(416, "", "bytes", "", "text/plain; charset=utf-8",
                            "bytes */" \o FmtU64(file_size), -1, "text"))
        ELSE IF Len(ranges) = 1
        THEN LET range == ranges[1]
                 last == SubU64(range.end, 1, checked)
                 new == SingleRangeReaderNew(ReqFile, range.start, range.end, seekOk, q, t)
             IN  IF last.panic THEN Panicked
                 ELSE ReaderResponse(new, range.start, range.end, t,
                         Response(206, etag, "bytes", FmtHttpDate(last_modified),
                                  MimeText,
                                  "bytes " \o FmtU64(range.start) \o "-" \o FmtU64(last.v)
                                      \o "/" \o FmtU64(file_size),
                                  range.end - range.start, "single"))
        ELSE LET sizes == [i \in 1..Len(ranges) |->
                              PartHeaderSize(ranges[i], MimeText, file_size, checked)]
                 lens == [i \in 1..Len(ranges) |->
                              SubU64(ranges[i].end, ranges[i].start, checked)]
                 header_length == SumU64([i \in 1..Len(ranges) |-> sizes[i].v], 1, checked)
                 body_length == SumU64([i \in 1..Len(ranges) |-> lens[i].v], 1, checked)
                 final_length == 8 + Len(BOUNDARY)
                 content_length ==
                     AddU64(AddU64(header_length.v, body_length.v, checked).v,
                            final_length, checked)
             IN  IF \/ \E i \in 1..Len(ranges) : sizes[i].panic \/ lens[i].panic
                    \/ header_length.panic \/ body_length.panic
                    \/ AddU64(header_length.v, body_length.v, checked).panic
                    \/ content_length.panic
                 THEN Panicked
                 ELSE Outcome(FALSE,
                         Response(206, etag, "bytes", FmtHttpDate(last_modified),
                                  MULTI_RANGE_CONTENT_TYPE, "",
                                  content_length.v, "multi"),
                         NoSingle,
                         [live |-> TRUE, file |-> ReqFile, file_size |-> file_size,
                          mime |-> MimeText, ranges |-> ranges, state |-> "Header"],
                         FALSE, NoCreate, NoArg)

\* StaticFiles::run
RunOutcome(r, tgt, last_modified, file_size, checked, seekOk, q, t) ==
    LET etag == EtagOf(last_modified, file_size)
    IN  IF tgt = "none" THEN Plain(NotFoundResponse)
        ELSE IF tgt = "meta_err" THEN Plain(UnexpectedResponse)
        ELSE IF should_cache(r.if_modified_since, r.if_none_match, last_modified, etag)
        THEN Plain(Response(304, etag, "bytes", FmtHttpDate(last_modified), "", "",
                            -1, "empty"))
        ELSE IF ~should_range(r.if_range, etag, last_modified)
        THEN whole_file_response(etag, last_modified, file_size, seekOk, q, t)
        ELSE IF ~IsSome(r.range)
        THEN whole_file_response(etag, last_modified, file_size, seekOk, q, t)
        ELSE IF ParseByteRange(Unwrap(r.range)) = <<>>
        THEN Plain(Response(400, "", "bytes", "", "text/plain", "", -1, "text"))
        ELSE IF precondition_failed(r.if_match, r.if_unmodified_since, last_modified, etag)
        THEN Plain(Response(412, "", "bytes", "", "text/plain", "", -1, "text"))
        ELSE RangeResponse(ParseByteRange(Unwrap(r.range)), etag, last_modified,
                           file_size, checked, seekOk, q, t)

\* ------------------------------------------------------------- SpecRun
\* One request: Init draws the file, the headers, the build and the state of
\* the submission queue; Run is StaticFiles::run.
ReqLastModified == {10500}
ReqFileSizes == {0, 10}
AnEtag(lm, size) == EtagOf(lm, size)
ADate(lm) == FmtHttpDate(lm)
OtherDate(lm) == FmtHttpDate(lm + 10000)

RangeValues ==
    {"bytes=5-", "bytes=0-1,3-4", "bytes=-5", "bytes=400-", "lines=1-2",
     "bytes=2-4, 3-20,-1", "bytes=0-" \o FmtU64(U64Max)}

Requests(lm, size) ==
    [range : {None} \cup {Some(v) : v \in RangeValues},
     if_range : {None, Some(AnEtag(lm, size)), Some("wrong"), Some(ADate(lm))},
     if_none_match : {None, Some("wrong, " \o AnEtag(lm, size) \o " "), Some("wrong")},
     if_modified_since : {None, Some(ADate(lm)), Some(OtherDate(lm))},
     if_match : {None, Some(AnEtag(lm, size)), Some("wrong")},
     if_unmodified_since : {None, Some(ADate(lm)), Some(OtherDate(lm))}]

\* the queue of a scheduler that other requests have filled to capacity
FullQueue == [i \in 1..QueueCap |-> i]

\* no request handled yet, no worker at work
NotStarted ==
    /\ rpc = "start"
    /\ resp = NoResponse
    /\ sr = NoSingle
    /\ mr = NoMulti
    /\ out = <<>>
    /\ poisoned = [t \in Tasks |-> FALSE]
    /\ guard = [t \in Tasks |-> "none"]
    /\ wpc = [w \in Workers |-> "idle"]
    /\ wtask = [w \in Workers |-> 0]
    /\ wlocal = [w \in Workers |-> NoLocal]
    /\ createArg = NoArg
    /\ createRet = [ok |-> TRUE, file |-> NoFile, buffer |-> -1, qlen |-> 0]
    /\ pollLog = [t \in Tasks |-> <<>>]
    /\ pickedAt = [t \in Tasks |-> -1]
    /\ wakeLog = [t \in Tasks |-> <<>>]
    /\ wokenAt = [t \in Tasks |-> -1]
    /\ readsBy = {}

\* the submission queue before any submission
EmptyQueue ==
    /\ queue = <<>>
    /\ nextTask = 1
    /\ state = [t \in Tasks |-> Absent]
    /\ handle = [t \in Tasks |-> FALSE]

\* the submission queue filled to capacity by other requests
SaturatedQueue ==
    /\ queue = FullQueue
    /\ nextTask = QueueCap + 1
    /\ state = [t \in Tasks |->
                   IF t <= QueueCap THEN StInit([id |-> t, pos |-> 0], 1)
                   ELSE Absent]
    /\ handle = [t \in Tasks |-> t <= QueueCap]

InitRun ==
    /\ lastModified \in ReqLastModified
    /\ fsize \in ReqFileSizes
    /\ overflowChecks \in BOOLEAN
    /\ \/ target = "ok" /\ req \in Requests(lastModified, fsize)
       \/ target \in {"none", "meta_err"} /\ req = NoRequest
    /\ EmptyQueue \/ SaturatedQueue
    /\ NotStarted
    /\ call = NoCall

\* StaticFiles::run on the request; seekOk: the reader's seek succeeds
Run(seekOk) ==
    /\ rpc = "start"
    /\ nextTask <= MaxTasks
    /\ LET o == RunOutcome(req, target, lastModified, fsize, overflowChecks,
                           seekOk, queue, nextTask)
       IN  /\ rpc' = IF o.panic THEN "panic" ELSE "done"
           /\ resp' = o.resp
           /\ sr' = o.sr
           /\ mr' = o.mr
           /\ IF o.created
              THEN /\ queue' = o.create.queue
                   /\ state' = [state EXCEPT ![nextTask] = o.create.st]
                   /\ handle' = [handle EXCEPT ![nextTask] = o.create.ok]
                   /\ createArg' = o.arg
                   /\ createRet' = [ok |-> o.create.ok, file |-> o.create.file,
                                    buffer |-> o.create.buffer, qlen |-> Len(queue)]
                   /\ nextTask' = nextTask + 1
              ELSE UNCHANGED <<queue, state, handle, createArg, createRet, nextTask>>
    /\ UNCHANGED <<poisoned, guard, wpc, wtask, wlocal, pollLog, pickedAt, wakeLog, wokenAt,
                   readsBy, fsize, req, target, lastModified, overflowChecks, out,
                   call>>

NextRun == \E seekOk \in BOOLEAN : Run(seekOk)

SpecRun == InitRun /\ [][NextRun]_vars

\* ================================================= multi-range streamer
\* pulls made on one response body
MaxPulls == 3

\* Cursor<Vec<u8>>::remaining_mut of the MAX_BUFFER_SIZE buffer at position pos
RemainingMut(pos) == IF pos >= MAX_BUFFER_SIZE THEN 0 ELSE MAX_BUFFER_SIZE - pos

\* what a chunk is made of: the text of a part header or of the closing
\* boundary, or the bytes [off, off + len) of the file
TextSeg(part, text) == [part |-> part, text |-> text, off |-> 0, len |-> Len(text)]
BodySeg(off, len) == [part |-> "body", text |-> "", off |-> off, len |-> len]

\* what a pull returns: "Ok" (a chunk), "End" (Ready(None)), "Pending", an
\* error ("Err": ErrorKind::Other of make_buffer, "IoErr": the error of a failed
\* seek or read, "WouldBlock": the scheduler is saturated), or it panics
Item(kind, len, segs) == [kind |-> kind, len |-> len, segs |-> segs]
ErrItem == Item("Err", 0, <<>>)
IoErrItem == Item("IoErr", 0, <<>>)
WouldBlockItem == Item("WouldBlock", 0, <<>>)
PendingItem == Item("Pending", 0, <<>>)
EndItem == Item("End", 0, <<>>)
PanicItem == Item("Panic", 0, <<>>)

\* make_buffer in poll_next: an empty buffer is an error
make_buffer(pos, segs) == IF pos = 0 THEN ErrItem ELSE Item("Ok", pos, segs)

\* PartHeader::write: the text written ([panic, v])
PartHeaderWrite(range, mime_text, total, checked) ==
    LET e == SubU64(range.end, 1, checked)
    IN  [panic |-> e.panic,
         v |-> "\r\n--" \o BOUNDARY \o "\r\ncontent-type: " \o mime_text
                   \o "\r\ncontent-range: bytes " \o FmtU64(range.start) \o "-"
                   \o FmtU64(e.v) \o "/" \o FmtU64(total) \o "\r\n\r\n"]

\* the closing boundary written in the Final phase
FinalText == "\r\n--" \o BOUNDARY \o "--\r\n"

\* what one poll_next call returns: the reader after it, the item, the
\* number of file reads the call executed
PollRet(m, item, nread) == [mr |-> m, item |-> item, reads |-> nread]

\* File::read of n bytes as the k-th read of a call: a read may return fewer
\* bytes than asked for
ReadFaults == {"none", "short", "read_err", "seek_err"}
ChunkSize(n, short) == IF short /\ n >= 2 THEN n \div 2 ELSE n

\* a test that lets the header be written wherever the buffer stands
HeaderFitsAnywhere(size, pos) == TRUE

\* part_header.size() <= buffer.remaining_mut(), the test of the Header phase
HeaderFits(size, pos) == size <= RemainingMut(pos)

\* MultiRangeReader::poll_next: the loop over the phases, from the buffer
\* position pos with segs written; the k-th read of the call meets `fault`
RECURSIVE MultiPollLoop(_, _, _, _, _, _, _)
MultiPollLoop(m, pos, segs, nread, k, fault, checked) ==
    CASE m.state = "Header" ->
            IF m.ranges = <<>> THEN PollRet(m, PanicItem, nread)
            ELSE LET first_range == Head(m.ranges)
                     size == PartHeaderSize(first_range, m.mime, m.file_size, checked)
                     text == PartHeaderWrite(first_range, m.mime, m.file_size, checked)
                 IN  IF size.panic THEN PollRet(m, PanicItem, nread)
                     ELSE IF HeaderFits(size.v, pos)
                     THEN MultiPollLoop([m EXCEPT !.state = "Body"],
                                        pos + Len(text.v),
                                        Append(segs, TextSeg("header", text.v)),
                                        nread, k, fault, checked)
                     ELSE PollRet(m, make_buffer(pos, segs), nread)
      [] m.state = "Body" ->
            IF m.ranges = <<>> THEN PollRet(m, PanicItem, nread)
            ELSE LET first_range == Head(m.ranges)
                     popped == [m EXCEPT !.ranges = Tail(m.ranges)]
                     remain == SubU64(first_range.end, first_range.start, checked)
                     slice_size == buffer_size(remain.v, RemainingMut(pos))
                     hit == nread + 1 = k
                     there == Max(0, m.file_size - first_range.start)
                     chunk_size == ChunkSize(Min(slice_size, there),
                                             hit /\ fault = "short")
                     start == first_range.start + chunk_size
                     read == [popped EXCEPT !.file.pos = start]
                     written == IF chunk_size = 0 THEN segs
                                ELSE Append(segs, BodySeg(first_range.start, chunk_size))
                 IN  IF remain.panic THEN PollRet(popped, PanicItem, nread)
                     ELSE IF hit /\ fault = "seek_err"
                     THEN PollRet(popped, IoErrItem, nread)
                     ELSE IF hit /\ fault = "read_err"
                     THEN PollRet([popped EXCEPT !.file.pos = first_range.start],
                                  IoErrItem, nread + 1)
                     ELSE IF checked /\ start > first_range.end
                     THEN PollRet(read, PanicItem, nread + 1)
                     ELSE IF start = first_range.end
                     THEN MultiPollLoop(
                              [read EXCEPT !.state = IF read.ranges = <<>>
                                                     THEN "Final" ELSE "Header"],
                              pos + chunk_size, written, nread + 1, k, fault, checked)
                     ELSE PollRet(
                              [read EXCEPT !.ranges =
                                  <<[start |-> start, end |-> first_range.end]>>
                                      \o read.ranges],
                              make_buffer(pos + chunk_size, written), nread + 1)
      [] m.state = "Final" ->
            IF Len(BOUNDARY) + 8 <= RemainingMut(pos)
            THEN PollRet([m EXCEPT !.state = "None"],
                         make_buffer(pos + Len(FinalText),
                                     Append(segs, TextSeg("final", FinalText))),
                         nread)
            ELSE PollRet(m, make_buffer(pos, segs), nread)
      [] OTHER ->
            IF pos = 0 THEN PollRet(m, EndItem, nread)
            ELSE PollRet(m, make_buffer(pos, segs), nread)

\* poll_next on a fresh buffer
MultiPollNext(m, k, fault, checked) == MultiPollLoop(m, 0, <<>>, 0, k, fault, checked)

\* ------------------------------------------------------------ SpecMulti
\* One multi-range request: Run builds the MultiRangeReader, then the
\* consumer pulls the body.
MultiFileSizes == {10, 5000000}
MultiRangeValues ==
    {"bytes=0-1,3-4", "bytes=2-4, 3-20,-1", "bytes=0-4194199,5-6",
     "bytes=0-1,2-4194137", "bytes=0-4999999,-1",
     "bytes=0-1,5-" \o FmtU64(U64Max)}

MultiRequests(lm, size) ==
    {[NoRequest EXCEPT !.range = Some(v), !.if_range = Some(AnEtag(lm, size))] :
        v \in MultiRangeValues}

InitMulti ==
    /\ lastModified \in ReqLastModified
    /\ fsize \in MultiFileSizes
    /\ overflowChecks \in BOOLEAN
    /\ target = "ok"
    /\ req \in MultiRequests(lastModified, fsize)
    /\ EmptyQueue
    /\ NotStarted
    /\ call = NoCall

\* the reads one poll_next call can make: one per remaining range
MaxReads == 3

\* one pull of the multi-range body by the consumer
PullMulti(k, fault) ==
    /\ rpc = "done"
    /\ mr.live
    /\ Len(out) < MaxPulls
    /\ \A i \in 1..Len(out) : out[i].kind # "Panic"
    /\ LET r == MultiPollNext(mr, k, fault, overflowChecks)
       IN  /\ mr' = r.mr
           /\ out' = Append(out, r.item)
           /\ readsBy' = IF r.reads > 0 THEN readsBy \cup {"consumer"} ELSE readsBy
    /\ UNCHANGED <<schedVars, fsize, req, target, lastModified, overflowChecks,
                   rpc, resp, sr, call>>

NextMulti ==
    \/ \E seekOk \in BOOLEAN : Run(seekOk)
    \/ \E k \in 1..MaxReads, fault \in ReadFaults : PullMulti(k, fault)

SpecMulti == InitMulti /\ [][NextMulti]_vars

\* ================================================ single-range streamer
\* what one SingleRangeReader::poll_next call did: the reader after it, the
\* item returned, the poll of its task (if made) and the create (if made)
NoPoll == [st |-> Temp, pois |-> FALSE, res |-> "None", value |-> NoResult]
PullRet(s, item, polled, poll, created, create, arg) ==
    [sr |-> s, item |-> item, polled |-> polled, poll |-> poll,
     created |-> created, create |-> create, arg |-> arg]

\* a poll_next that submits the next read without looking at the window left
SinglePollNextAlwaysSubmit(s, st, pois, q, t, waker) ==
    IF s.start > s.end
    THEN PullRet(s, PanicItem, FALSE, NoPoll, FALSE, NoCreate, NoArg)
    ELSE IF s.start = s.end
    THEN PullRet(s, EndItem, FALSE, NoPoll, FALSE, NoCreate, NoArg)
    ELSE LET p == PollStep(st, pois, waker)
         IN  CASE p.res = "Panic" ->
                    PullRet(s, PanicItem, TRUE, p, FALSE, NoCreate, NoArg)
               [] p.res = "Pending" ->
                    PullRet(s, PendingItem, TRUE, p, FALSE, NoCreate, NoArg)
               [] p.res = "Ready" /\ p.value.kind = "Err" ->
                    PullRet(s, IoErrItem, TRUE, p, FALSE, NoCreate, NoArg)
               [] OTHER ->
                    LET bytes == p.value.bytes
                        moved == [s EXCEPT !.start = s.start + bytes.len]
                        size == buffer_size(Max(0, s.end - moved.start), MAX_BUFFER_SIZE)
                        c == CreateStep(q, t, p.value.file, size)
                        arg == [file |-> p.value.file, buffer |-> size]
                        chunk == Item("Ok", bytes.len, <<BodySeg(bytes.off, bytes.len)>>)
                    IN  IF moved.start > s.end
                        THEN PullRet(moved, PanicItem, TRUE, p, FALSE, NoCreate, NoArg)
                        ELSE IF c.ok
                        THEN PullRet([moved EXCEPT !.task = t], chunk, TRUE, p,
                                     TRUE, c, arg)
                        ELSE PullRet(moved, WouldBlockItem, TRUE, p, TRUE, c, arg)

\* SingleRangeReader::poll_next.  s: the reader; st, pois: the cell of its
\* task; q: the channel; t: the id of the task a create would make
SinglePollNext(s, st, pois, q, t, waker) ==
    IF s.start > s.end
    THEN PullRet(s, PanicItem, FALSE, NoPoll, FALSE, NoCreate, NoArg)
    ELSE IF s.start = s.end
    THEN PullRet(s, EndItem, FALSE, NoPoll, FALSE, NoCreate, NoArg)
    ELSE LET p == PollStep(st, pois, waker)
         IN  CASE p.res = "Panic" ->
                    PullRet(s, PanicItem, TRUE, p, FALSE, NoCreate, NoArg)
               [] p.res = "Pending" ->
                    PullRet(s, PendingItem, TRUE, p, FALSE, NoCreate, NoArg)
               [] p.res = "Ready" /\ p.value.kind = "Err" ->
                    PullRet(s, IoErrItem, TRUE, p, FALSE, NoCreate, NoArg)
               [] OTHER ->
                    LET bytes == p.value.bytes
                        moved == [s EXCEPT !.start = s.start + bytes.len]
                        size == buffer_size(Max(0, s.end - moved.start), MAX_BUFFER_SIZE)
                        c == CreateStep(q, t, p.value.file, size)
                        arg == [file |-> p.value.file, buffer |-> size]
                        chunk == Item("Ok", bytes.len, <<BodySeg(bytes.off, bytes.len)>>)
                    IN  IF moved.start > s.end
                        THEN PullRet(moved, PanicItem, TRUE, p, FALSE, NoCreate, NoArg)
                        ELSE IF size = 0
                        THEN PullRet(moved, chunk, TRUE, p, FALSE, NoCreate, NoArg)
                        ELSE IF c.ok
                        THEN PullRet([moved EXCEPT !.task = t], chunk, TRUE, p,
                                     TRUE, c, arg)
                        ELSE PullRet(moved, WouldBlockItem, TRUE, p, TRUE, c, arg)

\* ----------------------------------------------------------- SpecSingle
\* One request answered with a single-range body: Run builds the
\* SingleRangeReader, the consumer pulls the body at any time, the workers
\* serve the queue and other requests submit reads of their own.
SingleFileSizes == {10, 5000000}
SingleRequests(lm, size) ==
    {NoRequest,
     [NoRequest EXCEPT !.range = Some("bytes=5-"), !.if_range = Some(AnEtag(lm, size))],
     [NoRequest EXCEPT !.range = Some("bytes=-4194305"),
                       !.if_range = Some(AnEtag(lm, size))]}

InitSingle ==
    /\ lastModified \in ReqLastModified
    /\ fsize \in SingleFileSizes
    /\ overflowChecks = TRUE
    /\ target = "ok"
    /\ req \in SingleRequests(lastModified, fsize)
    /\ EmptyQueue
    /\ NotStarted
    /\ call = NoCall

\* one pull of the single-range body by the consumer; the wakeup handle of
\* the pull is its number
PullSingle ==
    /\ rpc = "done"
    /\ sr.live
    /\ Len(out) < MaxPulls
    /\ \A i \in 1..Len(out) : out[i].kind # "Panic"
    /\ guard[sr.task] = "none"
    /\ LET waker == Len(out) + 1
           r == SinglePollNext(sr, state[sr.task], poisoned[sr.task], queue,
                               nextTask, waker)
           polled == IF r.polled
                     THEN [state EXCEPT ![sr.task] = r.poll.st]
                     ELSE state
       IN  /\ r.created => nextTask <= MaxTasks
           /\ sr' = r.sr
           /\ out' = Append(out, r.item)
           /\ poisoned' = IF r.polled
                          THEN [poisoned EXCEPT ![sr.task] = r.poll.pois]
                          ELSE poisoned
           /\ pollLog' = IF r.polled
                         THEN [pollLog EXCEPT ![sr.task] =
                                  Append(@, [res |-> r.poll.res, waker |-> waker,
                                             value |-> r.poll.value])]
                         ELSE pollLog
           /\ IF r.created
              THEN /\ state' = [polled EXCEPT ![nextTask] = r.create.st]
                   /\ queue' = r.create.queue
                   /\ handle' = [handle EXCEPT ![nextTask] = r.create.ok]
                   /\ createArg' = r.arg
                   /\ createRet' = [ok |-> r.create.ok, file |-> r.create.file,
                                    buffer |-> r.create.buffer, qlen |-> Len(queue)]
                   /\ nextTask' = nextTask + 1
              ELSE /\ state' = polled
                   /\ UNCHANGED <<queue, handle, createArg, createRet, nextTask>>
    /\ UNCHANGED <<guard, wpc, wtask, wlocal, pickedAt, wakeLog, wokenAt, readsBy, fsize,
                   req, target, lastModified, overflowChecks, rpc, resp, mr, call>>

NextSingle ==
    \/ \E seekOk \in BOOLEAN : Run(seekOk)
    \/ PullSingle
    \/ \E w \in Workers : WorkerPickup(w)
    \/ \E w \in Workers : WorkerRead(w)
    \/ \E w \in Workers : WorkerFinish(w)
    \/ \E b \in 1..MaxBuf : Create([id |-> nextTask, pos |-> 0], b)

SpecSingle == InitSingle /\ [][NextSingle]_vars

\* ------------------------------------------------------------ SpecShort
\* SpecSingle with a file that loses its tail while the body is streamed:
\* the window was resolved against the length metadata() reported, the
\* worker's file.read meets the length the file has when it runs.
\* the lengths the file may be cut to
ShortSizes == {5}

\* another process truncates the file being served to n bytes
Truncate(n) ==
    /\ rpc = "done"
    /\ sr.live
    /\ n < fsize
    /\ fsize' = n
    /\ UNCHANGED <<schedVars, readsBy, runVars>>

NextShort ==
    \/ NextSingle
    \/ \E n \in ShortSizes : Truncate(n)

SpecShort == InitSingle /\ [][NextShort]_vars

\* ============================================================= SpecPure
\* One call of a pure function: Init draws the function and its arguments,
\* the action of the function applies it.
\* header values the evaluators are called with
EvalEtag == "correct"
EvalTimes == {0, 1, 10000, 10999}
EvalDates == {FmtHttpDate(0), FmtHttpDate(10000), FmtHttpDate(20000), "yesterday"}
EvalTags == {"correct", "wrong", "wrong, correct ", " correct", "wrong,other", ""}
OptionOf(values) == {None} \cup {Some(v) : v \in values}

\* the arguments of actual_range: numbers near 0 and near u64::MAX
MaxOffset == 3
RangeNumbers == 0..MaxOffset \cup {U64Max - 1, U64Max}
ByteRanges ==
    {FromTo(s) : s \in RangeNumbers}
        \cup {FromToAll(s, e) : s \in RangeNumbers, e \in RangeNumbers}
        \cup {Last(n) : n \in RangeNumbers}
RangeFileSizes == 0..MaxOffset

\* the arguments of resolve_path: roots, and url paths of up to MaxSegments
\* segments separated by '/' or '\'
MaxSegments == 3
PathRoots == {PathOf(TRUE, <<"virtual">>), PathOf(FALSE, <<"www">>)}
UrlSegments ==
    {"", ".", "..", "foo", "%2e%2e", "..%2f..", "%2Fetc", "%ff"}
UrlSeparators == {"/", "\\"}
RECURSIVE UrlPathsOf(_)
UrlPathsOf(n) ==
    IF n = 1 THEN UrlSegments
    ELSE {u \o sep \o seg : u \in UrlPathsOf(n - 1), sep \in UrlSeparators,
                             seg \in UrlSegments}
UrlPaths == UNION {UrlPathsOf(n) : n \in 1..MaxSegments}

\* the arguments of PartHeader::new: mime strings, and numbers on both sides
\* of every change of decimal width
PartMimes == {"", "text/css", "text/plain; charset=utf-8"}
PartNumbers ==
    {0, 1, 9, 10, 99, 100, 999, 1000, 9999, 10000, 99999, 100000, 999999,
     1000000, 9999999, 10000000, 99999999, 100000000, U64Max}
PartTotals == {0, 9, 10, 111, 1000, 99999999, 100000000, U64Max}

\* the arguments of merge_ranges: up to MaxMerge ranges with start <= end
MaxMerge == 3
MaxMergeEnd == 4
MergeRange == {[start |-> a, end |-> b] : a \in 0..MaxMergeEnd, b \in 0..MaxMergeEnd}
MergeInputs ==
    UNION {[1..n -> {r \in MergeRange : r.start <= r.end}] : n \in 0..MaxMerge}

Call(fn, etag, byte_range, ranges) ==
    [fn |-> fn, done |-> FALSE, etag |-> etag, byte_range |-> byte_range,
     ranges |-> ranges, text |-> "", root |-> <<>>, ret |-> FALSE]
\* a call of resolve_path
CallPath(fn, root, url_path) == [Call(fn, "", <<>>, <<>>) EXCEPT !.root = root, !.text = url_path]
\* a call with a string argument
CallText(fn, text, ranges) == [Call(fn, "", <<>>, ranges) EXCEPT !.text = text]

InitPure ==
    /\ EmptyQueue
    /\ NotStarted
    /\ target = "ok"
    /\ \/ /\ call = Call("should_cache", EvalEtag, <<>>, <<>>)
          /\ lastModified \in EvalTimes
          /\ req \in [range : {None}, if_range : {None}, if_match : {None},
                      if_unmodified_since : {None},
                      if_none_match : OptionOf(EvalTags),
                      if_modified_since : OptionOf(EvalDates)]
          /\ fsize = 0 /\ overflowChecks = TRUE
       \/ /\ call = Call("precondition_failed", EvalEtag, <<>>, <<>>)
          /\ lastModified \in EvalTimes
          /\ req \in [range : {None}, if_range : {None}, if_none_match : {None},
                      if_modified_since : {None},
                      if_match : OptionOf(EvalTags),
                      if_unmodified_since : OptionOf(EvalDates)]
          /\ fsize = 0 /\ overflowChecks = TRUE
       \/ /\ call = Call("should_range", EvalEtag, <<>>, <<>>)
          /\ lastModified \in EvalTimes
          /\ req \in [range : {None}, if_none_match : {None}, if_match : {None},
                      if_modified_since : {None}, if_unmodified_since : {None},
                      if_range : OptionOf(EvalTags \cup EvalDates)]
          /\ fsize = 0 /\ overflowChecks = TRUE
       \/ /\ \E b \in ByteRanges : call = Call("actual_range", "", b, <<>>)
          /\ fsize \in RangeFileSizes
          /\ overflowChecks \in BOOLEAN
          /\ lastModified = 0 /\ req = NoRequest
       \/ /\ \E rs \in MergeInputs : call = Call("merge_ranges", "", <<>>, rs)
          /\ fsize = 0 /\ overflowChecks = TRUE
          /\ lastModified = 0 /\ req = NoRequest
       \/ /\ \E root \in PathRoots, u \in UrlPaths :
                call = CallPath("resolve_path", root, u)
          /\ fsize = 0 /\ overflowChecks = TRUE
          /\ lastModified = 0 /\ req = NoRequest
       \/ /\ \E mime \in PartMimes, a \in PartNumbers, b \in PartNumbers :
                /\ a <= b
                /\ call = CallText("part_header", mime, <<[start |-> a, end |-> b]>>)
          /\ fsize \in PartTotals
          /\ overflowChecks \in BOOLEAN
          /\ lastModified = 0 /\ req = NoRequest

\* the call returns ret
Return(fn, ret) ==
    /\ call.fn = fn
    /\ ~call.done
    /\ call' = [call EXCEPT !.done = TRUE, !.ret = ret]
    /\ UNCHANGED <<schedVars, readsBy, fsize, req, target, lastModified,
                   overflowChecks, rpc, resp, sr, mr, out>>

CallShouldCache ==
    Return("should_cache",
           should_cache(req.if_modified_since, req.if_none_match, lastModified,
                        call.etag))
CallPreconditionFailed ==
    Return("precondition_failed",
           precondition_failed(req.if_match, req.if_unmodified_since, lastModified,
                               call.etag))
CallShouldRange ==
    Return("should_range", should_range(req.if_range, call.etag, lastModified))
CallActualRange ==
    Return("actual_range", actual_range(call.byte_range, fsize, overflowChecks))
CallMergeRanges == Return("merge_ranges", merge_ranges(call.ranges))
CallResolvePath == Return("resolve_path", resolve_path(call.root, call.text))

\* PartHeader::new(range, mime, total), then write() into a Cursor and size(),
\* as test_part_header_size does: the size, the text written, the position
CallPartHeader ==
    LET size == PartHeaderSize(call.ranges[1], call.text, fsize, overflowChecks)
        text == PartHeaderWrite(call.ranges[1], call.text, fsize, overflowChecks)
    IN  Return("part_header",
               [panic |-> size.panic \/ text.panic, size |-> size.v,
                text |-> text.v, position |-> Len(text.v)])

NextPure ==
    \/ CallShouldCache
    \/ CallPreconditionFailed
    \/ CallShouldRange
    \/ CallActualRange
    \/ CallMergeRanges
    \/ CallPartHeader
    \/ CallResolvePath

SpecPure == InitPure /\ [][NextPure]_vars

\* ============================================================ properties
\* -------------------------------------------------- scheduler, under Spec
LastPoll(t) == pollLog[t][Len(pollLog[t])]
ReadyPolls(t) == {i \in 1..Len(pollLog[t]) : pollLog[t][i].res = "Ready"}
\* a worker took t and panicked on it
WorkerDiedOn(t) == \E w \in Workers : wpc[w] = "dead" /\ wtask[w] = t
\* a worker took t and is through with it
WorkerThrough(t) ==
    /\ pickedAt[t] >= 0
    /\ \A w \in Workers : wtask[w] = t => wpc[w] = "idle"

\* C1: once an operation has delivered Ready, every later poll of it returns
\* the same Ready result (no panic, no Pending, no other value).
C1_CompletedPollRepeats ==
    \A t \in Tasks :
        \A i, j \in 1..Len(pollLog[t]) :
            (i < j /\ pollLog[t][i].res = "Ready")
                => /\ pollLog[t][j].res = "Ready"
                   /\ pollLog[t][j].value = pollLog[t][i].value

\* the case of C2: exactly two polls were made before the worker's pickup
TwoPollsBeforePickup(t) ==
    \/ pickedAt[t] = 2
    \/ pickedAt[t] = -1 /\ Len(pollLog[t]) = 2

\* C2: an operation polled twice before its pickup stays Pending with the
\* second poll's handle, is taken and completed by the worker without a panic,
\* wakes the second poll's handle and delivers at most one Ready.
C2_TwoPollsOneReady ==
    \A t \in Tasks :
        (handle[t] /\ TwoPollsBeforePickup(t)) =>
            /\ pollLog[t][1].res = "Pending"
            /\ pollLog[t][2].res = "Pending"
            /\ pickedAt[t] = -1 =>
                  /\ state[t].tag = "Ready"
                  /\ state[t].waker = pollLog[t][2].waker
            /\ ~WorkerDiedOn(t)
            /\ WorkerThrough(t) =>
                  wakeLog[t] = <<[waker |-> pollLog[t][2].waker, tag |-> "Done"]>>
            /\ Cardinality(ReadyPolls(t)) <= 1

\* the states a re-poll may find an operation in before it is Completed
NonTerminal == {"Init", "Ready", "WaitWaker", "SendWaker", "Working"}

\* C3: a re-poll of an operation that is not Completed returns Pending and
\* leaves its phase, its file handle and its buffer as they were.
C3_RepollNoSideEffect ==
    [][\A t \in Tasks :
          (/\ Len(pollLog[t]) >= 1
           /\ Len(pollLog'[t]) = Len(pollLog[t]) + 1
           /\ state[t].tag \in NonTerminal)
              => /\ pollLog'[t][Len(pollLog'[t])].res = "Pending"
                 /\ state'[t].tag = state[t].tag
                 /\ state'[t].file = state[t].file
                 /\ state'[t].buffer = state[t].buffer]_vars

\* C4: with one poll of an operation, wherever it falls between the worker's
\* pickup and finish: the poll returned Ready with the result, or it returned
\* Pending and, once the worker is through, the result is stored and the
\* poll's handle has been woken with the result already in place.
C4_NoMissedWakeup ==
    \A t \in Tasks :
        (handle[t] /\ Len(pollLog[t]) = 1) =>
            LET p == pollLog[t][1]
            IN  /\ p.res \in {"Ready", "Pending"}
                /\ p.res = "Ready" => p.value.kind \in {"Ok", "Err"}
                /\ ~WorkerDiedOn(t)
                /\ (p.res = "Pending" /\ WorkerThrough(t)) =>
                      /\ state[t].tag = "Done"
                      /\ wakeLog[t] = <<[waker |-> p.waker, tag |-> "Done"]>>

\* one poll was made while the read ran, and the worker has finished
C4_Witness ==
    \E t \in Tasks :
        /\ Len(pollLog[t]) = 1
        /\ pickedAt[t] = 0
        /\ pollLog[t][1].res = "Pending"
        /\ WorkerThrough(t)
        /\ Len(wakeLog[t]) = 1

ReqEtag == EtagOf(lastModified, fsize)
NoConditionals ==
    /\ req.if_range = None /\ req.if_none_match = None /\ req.if_modified_since = None
    /\ req.if_match = None /\ req.if_unmodified_since = None
\* run has returned a response for an existing file without an I/O failure
Answered == rpc = "done" /\ target = "ok" /\ resp.status # 500
\* the concrete ranges the Range header resolves to against the file size
ResolvedRanges ==
    IF IsSome(req.range)
    THEN SelectSeq([i \in 1..Len(ParseByteRange(Unwrap(req.range))) |->
                       actual_range(ParseByteRange(Unwrap(req.range))[i], fsize, FALSE)],
                   LAMBDA r : r.some)
    ELSE <<>>

\* C7: a request whose If-Match / If-Unmodified-Since precondition fails is
\* answered 412, whatever its other headers are.
C7_PreconditionFirst ==
    (/\ Answered
     /\ precondition_failed(req.if_match, req.if_unmodified_since, lastModified, ReqEtag))
        => resp.status = 412

\* C8: a request with only a Range header that resolves to one range
\* [start, end) is answered 206 with Content-Range "bytes start-(end-1)/total",
\* Content-Length end - start and a body reader over exactly that window.
C8_RangeOnly206 ==
    (/\ Answered
     /\ NoConditionals
     /\ Len(ResolvedRanges) = 1
     /\ ResolvedRanges[1].start < ResolvedRanges[1].end)
        => LET r == ResolvedRanges[1]
           IN  /\ resp.status = 206
               /\ resp.content_range = "bytes " \o FmtU64(r.start) \o "-"
                      \o FmtU64(r.end - 1) \o "/" \o FmtU64(fsize)
               /\ resp.content_length = r.end - r.start
               /\ sr.live /\ sr.start = r.start /\ sr.end = r.end

\* C9: for an existing, readable file of any size and any headers, run returns
\* a response with one of the documented statuses; it never panics.
C9_AlwaysResponds ==
    (rpc # "start" /\ target = "ok")
        => /\ rpc = "done"
           /\ resp.status \in {200, 206, 304, 400, 412, 416, 500}

\* C10: a Range header with no valid spec is answered 400; one with valid specs
\* that resolve to no range is answered 416 with Content-Range "bytes */size".
C10_MalformedVsUnsatisfiable ==
    (Answered /\ NoConditionals /\ IsSome(req.range))
        => /\ ParseByteRange(Unwrap(req.range)) = <<>> => resp.status = 400
           /\ (ParseByteRange(Unwrap(req.range)) # <<>> /\ ResolvedRanges = <<>>)
                 => /\ resp.status = 416
                    /\ resp.content_range = "bytes */" \o FmtU64(fsize)

\* C11: a request whose If-None-Match holds a token equal to the file's ETag
\* is answered 304 with an empty body and the ETag, Last-Modified and
\* Accept-Ranges headers, and no read is submitted to the scheduler for it.
C11_NoneMatch304 ==
    (/\ rpc # "start"
     /\ target = "ok"
     /\ IsSome(req.if_none_match)
     /\ \E i \in 1..Len(Split(Unwrap(req.if_none_match), ",")) :
            Trim(Split(Unwrap(req.if_none_match), ",")[i]) = ReqEtag)
        => /\ rpc = "done"
           /\ resp.status = 304
           /\ resp.body = "empty"
           /\ resp.etag = ReqEtag
           /\ resp.last_modified = FmtHttpDate(lastModified)
           /\ resp.accept_ranges = "bytes"
           /\ createArg = NoArg
           /\ ~sr.live /\ ~mr.live
           /\ \A t \in Tasks : state[t].tag = "Absent" \/ t \in {queue[i] : i \in 1..Len(queue)}

\* a 304 was returned for a matching If-None-Match on a request that also
\* carries a Range and a non-matching If-Modified-Since
C11_Witness ==
    /\ rpc = "done"
    /\ resp.status = 304
    /\ req.if_none_match = Some("wrong, " \o ReqEtag \o " ")
    /\ req.if_modified_since = Some(OtherDate(lastModified))
    /\ IsSome(req.range)
    /\ fsize = 10

\* ----------------------------------------------- streamers, under SpecSingle
\* the items the pulls returned, the Pending ones left out
Emitted == SelectSeq(out, LAMBDA x : x.kind # "Pending")
\* the window [start, end) the response announces for its single-range body
Window ==
    IF resp.status = 206
    THEN [start |-> ResolvedRanges[1].start, end |-> ResolvedRanges[1].end]
    ELSE [start |-> 0, end |-> fsize]
\* the bytes emitted by the first n items
RECURSIVE EmittedLen(_, _)
EmittedLen(items, n) == IF n = 0 THEN 0 ELSE items[n].len + EmittedLen(items, n - 1)
\* no read failed and no submission was rejected, as far as the consumer saw
NoFailureSeen == \A i \in 1..Len(out) : out[i].kind \notin {"IoErr", "WouldBlock", "Err"}

\* C12: with all reads succeeding, the single-range streamer emits chunks of at
\* most MAX_BUFFER_SIZE bytes that are, in order, the file bytes of the window
\* [start, end), then end of stream; the total is end - start, the
\* Content-Length of the response.
C12_SingleStreamExact ==
    (sr.live /\ NoFailureSeen) =>
        /\ \A i \in 1..Len(Emitted) :
              \/ /\ Emitted[i].kind = "Ok"
                 /\ Emitted[i].len >= 1
                 /\ Emitted[i].len <= MAX_BUFFER_SIZE
                 /\ Emitted[i].segs =
                        <<BodySeg(Window.start + EmittedLen(Emitted, i - 1), Emitted[i].len)>>
                 /\ EmittedLen(Emitted, i) <= Window.end - Window.start
              \/ /\ Emitted[i].kind = "End"
                 /\ EmittedLen(Emitted, i) = Window.end - Window.start
                 /\ EmittedLen(Emitted, i) = resp.content_length

\* C14: after the single-range streamer has surfaced an error (a failed read
\* or a rejected submission), every later pull yields end of stream: no data,
\* no further submission, no panic.
C14_ErrorTerminates ==
    sr.live =>
        \A i, j \in 1..Len(out) :
            (i < j /\ out[i].kind \in {"IoErr", "WouldBlock"}) => out[j].kind = "End"

\* ------------------------------------------------ streamers, under SpecMulti
\* C13: with all reads succeeding, the bytes the multi-range streamer emits
\* up to end of stream are as many as the Content-Length of the response, and
\* the stream reaches its end without an error item or a panic.
C13_MultiLengthExact ==
    (mr.live /\ \A i \in 1..Len(out) : out[i].kind # "IoErr") =>
        \A i \in 1..Len(out) :
            /\ out[i].kind \in {"Ok", "End"}
            /\ out[i].kind = "Ok" => EmittedLen(out, i) <= resp.content_length
            /\ out[i].kind = "End" => EmittedLen(out, i) = resp.content_length

\* C6: no pull of a body streamer executes a file read on the consumer
\* thread: every blocking read is executed by a pool worker.
C6_ReadsOnWorkersOnly == "consumer" \notin readsBy

\* ------------------------------------------- pure functions, under SpecPure
Returned(fn) == call.fn = fn /\ call.done
\* some comma-separated, trimmed token of value is the ETag of the call
SomeTokenIsEtag(value) ==
    \E i \in 1..Len(Split(value, ",")) : Trim(Split(value, ",")[i]) = call.etag
\* value parses as an HTTP date of the same second as lastModified
SameSecond(value) ==
    /\ ParseHttpDate(value) # None
    /\ Unwrap(ParseHttpDate(value)) = lastModified \div 1000

\* C15: should_cache is, with If-None-Match present, whether some token equals
\* the ETag (If-Modified-Since is ignored); otherwise whether If-Modified-Since
\* parses as a date equal to lastModified to the second; otherwise false.
C15_ShouldCache ==
    Returned("should_cache") =>
        call.ret = IF IsSome(req.if_none_match)
                   THEN SomeTokenIsEtag(Unwrap(req.if_none_match))
                   ELSE IF IsSome(req.if_modified_since)
                   THEN SameSecond(Unwrap(req.if_modified_since))
                   ELSE FALSE

\* should_cache returned false for a date later than lastModified, and true
\* for a matching token next to a date that does not match
C15_Witness ==
    /\ Returned("should_cache")
    /\ \/ /\ req.if_none_match = None
          /\ req.if_modified_since = Some(FmtHttpDate(20000))
          /\ lastModified = 10999
          /\ call.ret = FALSE
       \/ /\ req.if_none_match = Some("wrong, correct ")
          /\ req.if_modified_since = Some("yesterday")
          /\ call.ret = TRUE

\* C16: precondition_failed is, with If-Match present, whether no token equals
\* the ETag (If-Unmodified-Since is ignored); otherwise whether
\* If-Unmodified-Since parses as a date that differs from lastModified to the
\* second; otherwise false.
C16_PreconditionFailed ==
    Returned("precondition_failed") =>
        call.ret = IF IsSome(req.if_match)
                   THEN ~SomeTokenIsEtag(Unwrap(req.if_match))
                   ELSE IF /\ IsSome(req.if_unmodified_since)
                           /\ ParseHttpDate(Unwrap(req.if_unmodified_since)) # None
                   THEN ~SameSecond(Unwrap(req.if_unmodified_since))
                   ELSE FALSE

\* precondition_failed returned true for a date later than lastModified with
\* no If-Match, and false for a matching If-Match next to such a date
C16_Witness ==
    /\ Returned("precondition_failed")
    /\ req.if_unmodified_since = Some(FmtHttpDate(20000))
    /\ lastModified = 10999
    /\ \/ req.if_match = None /\ call.ret = TRUE
       \/ req.if_match = Some(" correct") /\ call.ret = FALSE

\* C17 as stated: should_range is false without If-Range; with it, true if the
\* value equals the ETag verbatim, else true if it parses as a date equal to
\* lastModified, else false.
C17_ShouldRangeVerbatim ==
    Returned("should_range") =>
        call.ret = IF ~IsSome(req.if_range) THEN FALSE
                   ELSE IF Unwrap(req.if_range) = call.etag THEN TRUE
                   ELSE SameSecond(Unwrap(req.if_range))

\* C17 amended: should_range is false without If-Range; with it, if the value
\* parses as a date, whether that date equals lastModified to the second;
\* else whether some comma-separated, trimmed token of it equals the ETag.
C17_ShouldRangeTokens ==
    Returned("should_range") =>
        call.ret = IF ~IsSome(req.if_range) THEN FALSE
                   ELSE IF ParseHttpDate(Unwrap(req.if_range)) # None
                   THEN SameSecond(Unwrap(req.if_range))
                   ELSE SomeTokenIsEtag(Unwrap(req.if_range))

\* should_range returned true for a list of tags that holds the ETag
C17_Witness ==
    /\ Returned("should_range")
    /\ req.if_range = Some("wrong, correct ")
    /\ call.ret = TRUE

\* the range the reference definition of range resolution gives for a spec
\* and a file size, in unbounded arithmetic
ReferenceRange(byte_range, size) ==
    CASE byte_range.kind = "Last" ->
            IF byte_range.a = 0 THEN NoRange
            ELSE SomeRange(Max(0, size - byte_range.a), size)
      [] byte_range.kind = "FromTo" ->
            IF byte_range.a >= size THEN NoRange
            ELSE SomeRange(byte_range.a, size)
      [] OTHER ->
            IF byte_range.a > byte_range.b \/ byte_range.a >= size THEN NoRange
            ELSE SomeRange(byte_range.a, Min(size, byte_range.b + 1))

\* C18: actual_range agrees with the reference definition of range resolution
\* for every spec and every file size.
C18_ActualRangeReference ==
    Returned("actual_range") => call.ret = ReferenceRange(call.byte_range, fsize)

\* C19: every range that range resolution returns satisfies
\* start < end <= file size; an empty range is never returned.
C19_RangesNonEmpty ==
    (Returned("actual_range") /\ call.ret.some) =>
        /\ call.ret.start < call.ret.end
        /\ call.ret.end <= fsize

\* the bytes a list of ranges covers
Covered(ranges) ==
    {b \in 0..MaxMergeEnd : \E i \in 1..Len(ranges) :
                                ranges[i].start <= b /\ b < ranges[i].end}

\* C20: merge_ranges returns a list sorted by start, without an empty range,
\* with prev.end < next.start for consecutive entries, that covers exactly the
\* bytes the input ranges cover.
C20_MergeRanges ==
    Returned("merge_ranges") =>
        /\ \A i \in 1..Len(call.ret) : call.ret[i].start < call.ret[i].end
        /\ \A i \in 1..Len(call.ret) - 1 :
              /\ call.ret[i].start <= call.ret[i + 1].start
              /\ call.ret[i].end < call.ret[i + 1].start
        /\ Covered(call.ret) = Covered(call.ranges)

\* merge_ranges folded an adjacent pair and dropped an empty range, out of an
\* unsorted input
C20_Witness ==
    /\ Returned("merge_ranges")
    /\ call.ranges = <<[start |-> 2, end |-> 4], [start |-> 1, end |-> 2],
                       [start |-> 0, end |-> 0]>>
    /\ call.ret = <<[start |-> 1, end |-> 4]>>

\* ------------------------------------------------ handler, under SpecRun
\* C21: the ranges handed to the multi-range streamer are pairwise disjoint:
\* no byte of the file lies in two of them, so no byte span is served twice.
C21_RangesDisjoint ==
    (rpc = "done" /\ mr.live) =>
        \A i, j \in 1..Len(mr.ranges) :
            i < j => \/ mr.ranges[i].end <= mr.ranges[j].start
                     \/ mr.ranges[j].end <= mr.ranges[i].start

\* ------------------------------------------- pure functions, under SpecPure
\* C22: for every mime string, every range with start < end and every total,
\* PartHeader::size() is 56 + the mime length + the decimal widths of start,
\* end - 1 and total, and is the number of bytes PartHeader::write() emits.
C22_PartHeaderSize ==
    (Returned("part_header") /\ call.ranges[1].start < call.ranges[1].end) =>
        /\ ~call.ret.panic
        /\ call.ret.size = call.ret.position
        /\ call.ret.size = 56 + Len(call.text) + Len(FmtU64(call.ranges[1].start))
                               + Len(FmtU64(call.ranges[1].end - 1)) + Len(FmtU64(fsize))

\* a header was sized and written whose inclusive end is one digit shorter
\* than its exclusive end
C22_Witness ==
    /\ Returned("part_header")
    /\ call.ranges[1] = [start |-> 9, end |-> 100000000]
    /\ call.text = "text/css"
    /\ fsize = U64Max
    /\ call.ret.size = 56 + 8 + 1 + 8 + 9
    /\ call.ret.text = "\r\n--DCjanus\r\ncontent-type: text/css\r\ncontent-range: bytes 9-99999999/536870911\r\n\r\n"

\* ----------------------------------------------- scheduler, under SpecDrop
\* the consumer dropped operation t after it was accepted by create
Dropped(t) == ~handle[t] /\ (Queued(t) \/ pickedAt[t] >= 0)

\* C23: an operation dropped while queued or running is not cancelled and
\* harms no worker: the worker that takes it does not panic, and once it is
\* through the operation is Completed and the handle a poll left in it has
\* been woken.
C23_DropDoesNotCancel ==
    \A t \in Tasks :
        Dropped(t) =>
            /\ ~WorkerDiedOn(t)
            /\ WorkerThrough(t) =>
                  /\ state[t].tag = "Done"
                  /\ Len(pollLog[t]) >= 1 =>
                        \E i \in 1..Len(wakeLog[t]) : wakeLog[t][i].tag = "Done"

Below(root, path) ==
    /\ path.abs = root.abs
    /\ Len(path.comps) >= Len(root.comps)
    /\ SubSeq(path.comps, 1, Len(root.comps)) = root.comps
    /\ \A i \in (Len(root.comps) + 1)..Len(path.comps) : path.comps[i] # ".."

\* C25: for every root and every url path, resolve_path returns root itself
\* or a path below root.
C25_NoTraversal ==
    Returned("resolve_path") => Below(call.root, call.ret)

\* -------------------------------------------------- scheduler, under Spec
\* C26: while a worker executes the read of an operation it does not hold the
\* operation's mutex guard, and a poll of that operation by its consumer can
\* take the lock at once.
C26_NoLockAcrossRead ==
    \A w \in Workers :
        wpc[w] = "read" =>
            /\ guard[wtask[w]] = "none"
            /\ (/\ handle[wtask[w]]
                /\ PollCount < MaxPolls
                /\ \A i \in 1..Len(pollLog[wtask[w]]) : pollLog[wtask[w]][i].res # "Panic")
                  => ENABLED Poll(wtask[w], PollCount + 1)

\* a poll was made while the read of the operation was in progress, and it
\* has registered its handle
C26_Witness ==
    \E w \in Workers :
        /\ wpc[w] = "read"
        /\ pickedAt[wtask[w]] = 0
        /\ Len(pollLog[wtask[w]]) = 1
        /\ state[wtask[w]].tag = "SendWaker"

\* ----------------------------------------------- streamers, under SpecSingle
\* the operations submitted on the file of the request (by the streamer) that
\* have not been delivered: the file travels with the operation
Outstanding ==
    {t \in Tasks :
        \/ state[t].tag \in {"Init", "Ready"} /\ state[t].file.id = ReqFile.id
        \/ \E w \in Workers : /\ wtask[w] = t /\ wpc[w] \in {"read", "finish"}
                              /\ wlocal[w].file.id = ReqFile.id
        \/ state[t].tag = "Done" /\ state[t].result.file.id = ReqFile.id}

\* C27: a streamer has at most one read operation outstanding, and none once
\* its window is empty; it submits an operation only in a pull whose poll
\* returned the result of the previous one, and only for a window that is not
\* empty.
C27_OneOutstanding ==
    [][/\ Cardinality(Outstanding') <= 1
       /\ (sr'.live /\ sr'.start = sr'.end) => Outstanding' = {}
       /\ (sr.live /\ nextTask' = nextTask + 1 /\ createArg'.file.id = ReqFile.id)
            => /\ Len(pollLog'[sr.task]) = Len(pollLog[sr.task]) + 1
               /\ pollLog'[sr.task][Len(pollLog'[sr.task])].res = "Ready"
               /\ Outstanding = {sr.task}
               /\ sr'.start < sr'.end
               /\ createArg'.buffer = Min(sr'.end - sr'.start, MAX_BUFFER_SIZE)
               /\ Outstanding' \subseteq {nextTask}]_vars

\* the streamer has emitted a first chunk and its second read is outstanding
C27_Witness ==
    /\ sr.live
    /\ Len(out) >= 1
    /\ out[Len(out)].kind = "Ok"
    /\ sr.task = 2
    /\ sr.start < sr.end
    /\ Outstanding = {2}

\* ------------------------------------------------ streamers, under SpecMulti
\* the segments written by the first n items, in order
RECURSIVE SegsOf(_, _)
SegsOf(items, n) == IF n = 0 THEN <<>> ELSE SegsOf(items, n - 1) \o items[n].segs

\* adjacent runs of file bytes that continue one another, taken as one
RECURSIVE Coalesce(_)
Coalesce(segs) ==
    IF Len(segs) <= 1 THEN segs
    ELSE LET rest == Coalesce(Tail(segs))
             a == Head(segs)
             b == Head(rest)
         IN  IF a.part = "body" /\ b.part = "body" /\ b.off = a.off + a.len
             THEN <<BodySeg(a.off, a.len + b.len)>> \o Tail(rest)
             ELSE <<a>> \o rest

\* segs is a beginning of: header of range 1, bytes of range 1, header of
\* range 2, bytes of range 2, ..., closing boundary
PartsInOrder(segs, ranges) ==
    /\ Len(segs) <= 2 * Len(ranges) + 1
    /\ \A i \in 1..Len(segs) :
          IF i = 2 * Len(ranges) + 1 THEN segs[i] = TextSeg("final", FinalText)
          ELSE LET r == ranges[(i + 1) \div 2]
               IN  IF i % 2 = 1
                   THEN segs[i] = TextSeg("header",
                                      PartHeaderWrite(r, MimeText, fsize, FALSE).v)
                   ELSE /\ segs[i].part = "body"
                        /\ segs[i].off = r.start
                        /\ segs[i].len <= r.end - r.start
                        /\ i < Len(segs) => segs[i].len = r.end - r.start

\* C28: with all reads succeeding, what the multi-range streamer emits is, in
\* order, for each range of the list its part header followed by exactly its
\* bytes, then the closing boundary once; every pull before that yields a
\* chunk, and the pull after the closing boundary yields end of stream.
C28_PhaseOrder ==
    (mr.live /\ \A i \in 1..Len(out) : out[i].kind # "IoErr") =>
        \A i \in 1..Len(out) :
            LET before == Coalesce(SegsOf(out, i - 1))
                complete == Len(before) = 2 * Len(ResolvedRanges) + 1
            IN  /\ PartsInOrder(Coalesce(SegsOf(out, i)), ResolvedRanges)
                /\ out[i].kind = IF complete THEN "End" ELSE "Ok"

\* the number of part headers among segs
RECURSIVE HeaderCount(_)
HeaderCount(segs) ==
    IF segs = <<>> THEN 0
    ELSE (IF Head(segs).part = "header" THEN 1 ELSE 0) + HeaderCount(Tail(segs))
\* the bytes of segs
RECURSIVE SegsLen(_)
SegsLen(segs) == IF segs = <<>> THEN 0 ELSE Head(segs).len + SegsLen(Tail(segs))

\* C29: a part header is never split over two chunks: every chunk holds at
\* most MAX_BUFFER_SIZE bytes, every part header in a chunk is the complete
\* header of its range, and a chunk after the first begins with a part header
\* only if that header did not fit behind the chunk before it.
C29_HeaderNeverSplit ==
    (mr.live /\ \A i \in 1..Len(out) : out[i].kind # "IoErr") =>
        \A i \in 1..Len(out) :
            out[i].kind = "Ok" =>
                /\ out[i].len <= MAX_BUFFER_SIZE
                /\ out[i].len = SegsLen(out[i].segs)
                /\ \A j \in 1..Len(out[i].segs) :
                      out[i].segs[j].part = "header" =>
                          LET k == HeaderCount(SegsOf(out, i - 1))
                                       + HeaderCount(SubSeq(out[i].segs, 1, j))
                          IN  /\ k <= Len(ResolvedRanges)
                              /\ out[i].segs[j].text =
                                     PartHeaderWrite(ResolvedRanges[k], MimeText, fsize,
                                                     FALSE).v
                /\ (i > 1 /\ out[i].segs[1].part = "header") =>
                      out[i - 1].len + out[i].segs[1].len > MAX_BUFFER_SIZE

\* the header of the second part did not fit behind the first part's bytes:
\* the first chunk ends with those bytes, the second begins with the header
C29_Witness ==
    /\ mr.live
    /\ Len(out) >= 2
    /\ out[1].kind = "Ok" /\ out[2].kind = "Ok"
    /\ out[1].segs[Len(out[1].segs)] = BodySeg(0, 4194200)
    /\ out[1].len < MAX_BUFFER_SIZE
    /\ out[2].segs[1].part = "header"
    /\ out[2].segs[1].text =
           PartHeaderWrite([start |-> 5, end |-> 7], MimeText, fsize, FALSE).v

\* ----------------------------------------------- scheduler, under SpecFair
\* C30: every operation accepted by create is eventually taken by a worker
\* that reads and stores Completed for it, whatever polls its consumer makes.
C30_EventuallyCompleted ==
    \A t \in Tasks : handle[t] ~> WorkerThrough(t)

\* C31: a wakeup is sent only with the result stored: every handle a worker
\* woke was woken with the operation's state Done; from the wakeup until the
\* next poll of the operation the state stays Done behind a sound lock, and
\* that poll (the first after the wakeup) returned Ready with the result.
C31_WakeAfterStore ==
    \A t \in Tasks :
        /\ \A i \in 1..Len(wakeLog[t]) : wakeLog[t][i].tag = "Done"
        /\ wokenAt[t] >= 0 =>
              IF Len(pollLog[t]) = wokenAt[t]
              THEN /\ state[t].tag = "Done"
                   /\ ~poisoned[t]
              ELSE LET p == pollLog[t][wokenAt[t] + 1]
                   IN  /\ p.res = "Ready"
                       /\ p.value.kind \in {"Ok", "Err"}

\* a handle was woken and the operation was polled after that
C31_Witness ==
    \E t \in Tasks :
        /\ Len(wakeLog[t]) = 1
        /\ wokenAt[t] >= 1
        /\ Len(pollLog[t]) = wokenAt[t] + 1
        /\ LastPoll(t).res = "Ready"

\* ------------------------------------- single-range body, under SpecShort
\* C32: a single-range stream over a non-empty window ends after finitely
\* many pulls, also when a read returns Ok with zero bytes because the file
\* is shorter than the window: the window left is the stream's variant, so
\* every pull that returns a chunk leaves less of the window than it found
\* (at most end - start chunks come before end of stream or an error); no
\* pull returns a chunk with the window as it was and the same read
\* submitted again.
C32_ShortFileTerminates ==
    [][(Len(out') > Len(out) /\ sr.live /\ out'[Len(out')].kind = "Ok")
          => sr'.end - sr'.start < sr.end - sr.start]_vars

\* ------------------------------------- range resolution, under SpecPure
\* C33: for FromToAll(start, end) with start <= end and start < file size,
\* actual_range returns a range with start < end <= file size, whatever the
\* 64-bit inclusive end is, the largest included: end + 1 neither aborts the
\* call nor wraps to a bound at or below start.
C33_InclusiveEndNoOverflow ==
    (/\ Returned("actual_range")
     /\ call.byte_range.kind = "FromToAll"
     /\ call.byte_range.a <= call.byte_range.b
     /\ call.byte_range.a < fsize) =>
        /\ ~call.ret.panic
        /\ call.ret.some
        /\ call.ret.start = call.byte_range.a
        /\ call.ret.start < call.ret.end
        /\ call.ret.end <= fsize

\* ------------------------------------------- scheduler, under SpecPolite
\* the worker or a poll panicked on some operation, or a mutex is poisoned
SomePanic ==
    \/ \E w \in Workers : wpc[w] = "dead"
    \/ \E t \in Tasks : poisoned[t]
    \/ \E t \in Tasks : \E i \in 1..Len(pollLog[t]) : pollLog[t][i].res = "Panic"

\* the cell of t holds the placeholder where a thread could still lock it:
\* the operation was accepted and its consumer has not received Ready
TempVisible(t) ==
    /\ state[t].tag = "Temp"
    /\ handle[t]
    /\ ReadyPolls(t) = {}

====
